---- MODULE Spec2Model ----
(***************************************************************************)
(* A model of the Figma MCP server: the session registry of MCPServer, the *)
(* tool dispatcher FigmaHandler.callTool with its handlers, the upstream   *)
(* client makeFigmaRequest with the LRU/TTL cache and the API statistics,  *)
(* and the reference-graph validator.                                      *)
(*                                                                         *)
(* Execution is single-threaded and cooperative: a handler runs without    *)
(* interruption up to its next `await fetch(...)`.  One action is one such *)
(* synchronous block: CallTool runs a handler from its entry to its first  *)
(* upstream request (or to its end), Respond resumes it with the outcome   *)
(* of one outstanding request and runs it to its next suspension point.    *)
(***************************************************************************)
EXTENDS Integers, Sequences, FiniteSets, Bags, TLC

VARIABLES
    sessions,         \* MCPServer.sessions: the registered session ids
    conn,             \* per session id: its connection (handshake and response stream)
    calls,            \* the tool invocations in flight (a bag of invocation records)
    last,             \* the invocation that ended last, with its result
    cache,            \* FigmaHandler.cache, entries in recency order (least recent first)
    now,              \* the clock the cache reads
    apiStats,         \* MCPServer.figmaApiStats
    connectionStats,  \* MCPServer.connectionStats
    connectionErrors, \* MCPServer.connectionErrors
    recency,          \* history: the cached keys by their last use from a handler (least recent first)
    server,           \* MCPServer: state, httpServer, timer, listeners, and where start() and stop() are
    handler,          \* FigmaHandler: token and rate limit fields, and a request made of it directly
    startup           \* startServer: its position, its token and what validateToken was answered

vars ==
    <<sessions, conn, calls, last, cache, now, apiStats, connectionStats, connectionErrors, recency,
      server, handler, startup>>

(***************************************************************************)
(* Bounds of the model.                                                    *)
(***************************************************************************)
\* Tool invocations per behaviour (connectionStats.totalRequests is capped here).
MaxCalls == 3
\* Tool invocations per behaviour of the eviction specification.
LruCalls == 4
\* Tool invocations per behaviour of the session specification.
SessionCalls == 2
MaxPosts == 2
MaxProbes == 2
\* Ticks of the health timer.
MaxTicks == 2
\* Invocations, and items of a batch, of the batch specification with a warm cache.
WarmCalls == 2
\* Invocations of the rate limit specification.
RateCalls == 2
WarmBatch == 2
\* Requests made of the handler directly, per behaviour.
MaxRequests == 4
\* Items of a batch (updates, variableIds).
MaxBatch == 3
\* Tool invocations in flight at a time.
MaxInflight == 2
\* Clock ticks per behaviour.
MaxTime == 2
\* The cache's `max` (500 in the source), scaled to the key space of the model.
CacheMax == 2
\* The cache's `ttl` (5 minutes in the source), scaled to clock ticks.
CacheTtl == 1

(***************************************************************************)
(* Small helpers.                                                          *)
(***************************************************************************)
Range(s) == {s[i] : i \in 1..Len(s)}

RECURSIVE Flatten(_)
Flatten(ss) == IF ss = <<>> THEN <<>> ELSE Head(ss) \o Flatten(Tail(ss))

\* String.prototype.includes on a message, at the granularity of its tokens.
Includes(msg, token) == token \in Range(msg)

(***************************************************************************)
(* Identifiers and safeFigmaId.  An identifier is a string; IdChars gives  *)
(* the characters of each identifier the model uses.                       *)
(***************************************************************************)
IdChars ==
    [K1 |-> <<"K", "1">>, K2 |-> <<"K", "2">>, K3 |-> <<"K", "3">>, P1 |-> <<"P", "1">>,
     A |-> <<"A">>, B |-> <<"B">>, C |-> <<"C">>, D |-> <<"D">>, Z |-> <<"Z">>]
    @@ ("" :> <<>>) @@ (".." :> <<".", ".">>) @@ ("a/b" :> <<"a", "/", "b">>)
    @@ ("a\\b" :> <<"a", "\\", "b">>) @@ ("a\nb" :> <<"a", "\n", "b">>)
    @@ ("a\tb" :> <<"a", "\t", "b">>)

\* UNSAFE_ID_RE = /[/\\\n\r\0]|\.\./  ("NUL" stands for the null byte)
UNSAFE_ID_RE(chars) ==
    \/ \E i \in 1..Len(chars) : chars[i] \in {"/", "\\", "\n", "\r", "NUL"}
    \/ \E i \in 1..(Len(chars) - 1) : chars[i] = "." /\ chars[i + 1] = "."

\* An argument value as it arrives: a string, or something that is no string.
Str(s) == [t |-> "string", s |-> s, items |-> <<>>]
Undefined == [t |-> "undefined", s |-> "", items |-> <<>>]
NotAString == [t |-> "number", s |-> "", items |-> <<>>]
\* An array argument, by its items.
Arr(items) == [t |-> "array", s |-> "", items |-> items]
Bool(b) == [t |-> "boolean", s |-> IF b THEN "true" ELSE "", items |-> <<>>]

\* The issues zod reports for one value under safeFigmaId (none: the value is accepted).
safeFigmaId(p) ==
    IF p.t = "undefined" THEN <<"Required">>
    ELSE IF p.t # "string" THEN <<"Expected string">>
    ELSE (IF Len(IdChars[p.s]) < 1 THEN <<"ID must not be empty">> ELSE <<>>)
         \o (IF UNSAFE_ID_RE(IdChars[p.s]) THEN <<"ID contains invalid characters">> ELSE <<>>)

(***************************************************************************)
(* Values: decoded upstream bodies, and what the cache hands back.         *)
(***************************************************************************)
ObjBody(name) == [t |-> "object", name |-> name, vars |-> <<>>]
ArrBody(variables) == [t |-> "array", name |-> "", vars |-> variables]
\* A body that decodes to a falsy JSON value (null, false, 0, "").
NullBody == [t |-> "null", name |-> "", vars |-> <<>>]
\* JavaScript's undefined: what cache.get returns on a miss.
NoValue == [t |-> "undefined", name |-> "", vars |-> <<>>]

\* JavaScript truthiness of a value (`!fileData` is its negation).
Truthy(v) == v.t \in {"object", "array"}

(***************************************************************************)
(* The cache: new LRUCache({ max, ttl }).  An entry is [key, value, start],*)
(* start being the time of the set that wrote it; the sequence is ordered  *)
(* by recency, least recently used first.                                  *)
(***************************************************************************)
CacheKeys(c) == {c[i].key : i \in 1..Len(c)}

CacheIndex(c, key) == IF key \in CacheKeys(c) THEN CHOOSE i \in 1..Len(c) : c[i].key = key ELSE 0

CacheRemove(c, key) == SelectSeq(c, LAMBDA e : e.key # key)

\* lru-cache: an entry is stale once more than its ttl has passed since its set.
IsStale(e, t) == t - e.start > CacheTtl

\* A live entry: present and not stale.
Live(c, key, t) == key \in CacheKeys(c) /\ ~IsStale(c[CacheIndex(c, key)], t)

\* Mutant of CacheGet: a hit does not refresh the entry's recency.
CacheGet_NoPromote(c, key, t) ==
    LET i == CacheIndex(c, key) IN
    IF i = 0 THEN [value |-> NoValue, cache |-> c]
    ELSE IF IsStale(c[i], t) THEN [value |-> NoValue, cache |-> CacheRemove(c, key)]
    ELSE [value |-> c[i].value, cache |-> c]

\* this.cache.get(key): a stale entry is deleted and misses; a hit moves the entry
\* to the most-recent end.  Gives the value and the cache afterwards.
CacheGet(c, key, t) ==
    LET i == CacheIndex(c, key) IN
    IF i = 0 THEN [value |-> NoValue, cache |-> c]
    ELSE IF IsStale(c[i], t) THEN [value |-> NoValue, cache |-> CacheRemove(c, key)]
    ELSE [value |-> c[i].value, cache |-> Append(CacheRemove(c, key), c[i])]

\* this.cache.set(key, value): an existing key is overwritten (value and start) and
\* becomes most recent; a new key evicts the least recently used entry when the
\* cache already holds max entries.
CacheSet(c, key, value, t) ==
    LET e == [key |-> key, value |-> value, start |-> t] IN
    IF key \in CacheKeys(c) THEN Append(CacheRemove(c, key), e)
    ELSE IF Len(c) >= CacheMax THEN Append(Tail(c), e)
    ELSE Append(c, e)

\* History of uses: key becomes the most recently used key.
Touch(r, key) == Append(SelectSeq(r, LAMBDA k : k # key), key)

\* History of uses, kept for the keys the cache holds.
Cached(r, c) == SelectSeq(r, LAMBDA k : k \in CacheKeys(c))

(***************************************************************************)
(* The upstream client.  A response is what fetch and the decoding of its  *)
(* body come to: a decoded body, a non-2xx status with its best-available  *)
(* message, a network failure, or a 2xx body that is no JSON.              *)
(***************************************************************************)
OkResp(body) == [kind |-> "ok", status |-> 200, text |-> <<>>, body |-> body]
HttpErr(status, text) == [kind |-> "http", status |-> status, text |-> text, body |-> NoValue]
NetErr(text) == [kind |-> "network", status |-> 0, text |-> text, body |-> NoValue]
BadJson(text) == [kind |-> "badjson", status |-> 200, text |-> text, body |-> NoValue]

\* makeFigmaRequest: what the awaiting handler gets, the decoded body or the
\* Error that is thrown (by its message).
makeFigmaRequest(resp) ==
    CASE resp.kind = "ok" -> [ok |-> TRUE, data |-> resp.body, msg |-> <<>>]
      [] resp.kind = "http" ->
            [ok |-> FALSE, data |-> NoValue,
             msg |-> <<"Figma API error (", ToString(resp.status), "): ">> \o resp.text]
      [] resp.kind = "badjson" ->
            [ok |-> FALSE, data |-> NoValue,
             msg |-> <<"Failed to parse Figma API response as JSON: ">> \o resp.text]
      [] OTHER -> [ok |-> FALSE, data |-> NoValue, msg |-> resp.text]

\* Statistics that count a failed request among the failures only.
updateStats_FailureNotTotal(st, resp) ==
    [st EXCEPT !.totalApiCalls = IF resp.kind = "ok" THEN @ + 1 ELSE @,
               !.failedApiCalls = IF resp.kind = "ok" THEN @ ELSE @ + 1]

\* The statistics callback of MCPServer, as makeFigmaRequest calls it once per request.
updateStats(st, resp) ==
    [st EXCEPT !.totalApiCalls = @ + 1,
               !.failedApiCalls = IF resp.kind = "ok" THEN @ ELSE @ + 1]

(***************************************************************************)
(* Results.  A tool result is the envelope { isError?, content: [text] };  *)
(* the text is kept as its sequence of tokens, `data` is the body it       *)
(* renders.  A handler returns an envelope or throws.                      *)
(***************************************************************************)
Result(isError, text, data) ==
    [kind |-> "result", isError |-> isError, text |-> text, data |-> data]
Rejected(msg) == [kind |-> "rejected", isError |-> TRUE, text |-> msg, data |-> NoValue]
NoResult == [kind |-> "none", isError |-> FALSE, text |-> <<>>, data |-> NoValue]

Return(res) == [tag |-> "return", res |-> res, zod |-> FALSE, issues |-> <<>>, msg |-> <<>>]
\* throw of a ZodError with its issues, each [path, message].
ThrowZod(issues) == [tag |-> "throw", res |-> NoResult, zod |-> TRUE, issues |-> issues, msg |-> <<>>]
\* throw of any other Error, by its message.
Throw(msg) == [tag |-> "throw", res |-> NoResult, zod |-> FALSE, issues |-> <<>>, msg |-> msg]

\* error.errors.map(e => `${e.path.join('.')}: ${e.message}`).join(', ')
RECURSIVE IssuesText(_)
IssuesText(issues) ==
    IF issues = <<>> THEN <<>>
    ELSE <<Head(issues).path, ": ", Head(issues).message>> \o IssuesText(Tail(issues))

\* callTool without its catch: what the handler throws rejects the call.
callToolCatch_Rethrow(out) ==
    IF out.tag = "return" THEN out.res
    ELSE Rejected(IF out.zod THEN IssuesText(out.issues) ELSE out.msg)

\* A catch that reports the first issue of a ZodError only.
callToolCatch_FirstIssue(out) ==
    IF out.tag = "return" THEN out.res
    ELSE IF out.zod
    THEN Result(TRUE, <<"Invalid arguments: ">> \o IssuesText(SubSeq(out.issues, 1, 1)), NoValue)
    ELSE Result(TRUE, <<"Tool execution failed: ">> \o out.msg, NoValue)

\* FigmaHandler.callTool around a handler: what the handler returns is passed on,
\* what it throws becomes an error envelope.
callToolCatch(out) ==
    IF out.tag = "return" THEN out.res
    ELSE IF out.zod THEN Result(TRUE, <<"Invalid arguments: ">> \o IssuesText(out.issues), NoValue)
    ELSE Result(TRUE, <<"Tool execution failed: ">> \o out.msg, NoValue)

\* The catch block every handler but list-files ends with: 404 and 403 in the
\* message are rephrased, anything else is passed on after the tool's prefix.
HandlerCatch(notFound, denied, prefix, msg) ==
    Return(Result(TRUE,
        IF Includes(msg, "404") THEN notFound
        ELSE IF Includes(msg, "403") THEN denied
        ELSE <<prefix>> \o msg,
        NoValue))

(***************************************************************************)
(* Argument schemas.  `args` is the argument object of a call, a record of *)
(* argument values; a field it lacks is undefined.                         *)
(***************************************************************************)
Field(args, f) == IF f \in DOMAIN args THEN args[f] ELSE Undefined

AsIssues(path, messages) == [i \in 1..Len(messages) |-> [path |-> path, message |-> messages[i]]]

\* z.object({ <field>: safeFigmaId })
IdIssues(args, f) == AsIssues(f, safeFigmaId(Field(args, f)))

\* The issues of the items of an array of identifiers, from the i-th on; `sub` is
\* the rest of an item's path (".variableId" where the items are objects).
RECURSIVE ItemIssues(_, _, _, _)
ItemIssues(f, sub, items, i) ==
    IF i > Len(items) THEN <<>>
    ELSE AsIssues(f \o "." \o ToString(i - 1) \o sub, safeFigmaId(items[i]))
         \o ItemIssues(f, sub, items, i + 1)

\* z.array(...) of identifiers under the field f; every item is checked.
ArrayIssues(args, f, sub) ==
    LET p == Field(args, f) IN
    IF p.t = "undefined" THEN AsIssues(f, <<"Required">>)
    ELSE IF p.t # "array" THEN AsIssues(f, <<"Expected array">>)
    ELSE ItemIssues(f, sub, p.items, 1)

\* z.array(...).optional()
OptionalArrayIssues(args, f, sub) ==
    IF Field(args, f).t = "undefined" THEN <<>> ELSE ArrayIssues(args, f, sub)

\* z.boolean().optional().default(false)
OptionalBoolIssues(args, f) ==
    IF Field(args, f).t \in {"undefined", "boolean"} THEN <<>>
    ELSE AsIssues(f, <<"Expected boolean">>)

\* z.string()
StringIssues(args, f) ==
    IF Field(args, f).t = "undefined" THEN AsIssues(f, <<"Required">>)
    ELSE IF Field(args, f).t # "string" THEN AsIssues(f, <<"Expected string">>)
    ELSE <<>>

\* The identifiers an array of identifiers holds.
ItemIds(p) == [i \in 1..Len(p.items) |-> p.items[i].s]

(***************************************************************************)
(* A tool invocation.  pc is idle (not arrived), await (suspended on the   *)
(* requests in `pending`) or done.  `out` is what the handler returned or   *)
(* threw.  The fields from nreq on are history:                            *)
(* the upstream requests the invocation has issued, how many of them       *)
(* failed, the body the last successful one decoded to, the outcome of     *)
(* each request by its tag, whether the key                                *)
(* had a live (an expired) cache entry when the handler read the cache,    *)
(* the value of the live entry, and the keys that left the cache in the    *)
(* invocation's own steps.                                                 *)
(***************************************************************************)
IdleCall ==
    [pc |-> "idle", sid |-> "", name |-> "", args |-> <<>>, fileKey |-> "", key |-> "",
     items |-> <<>>, given |-> FALSE, soft |-> FALSE, modes |-> <<>>,
     expression |-> "", themeName |-> "",
     list |-> NoValue, lines |-> <<>>, sub |-> <<>>,
     stage |-> "", pending |-> {}, out |-> Return(NoResult), result |-> NoResult,
     nreq |-> 0, failures |-> 0, fetched |-> NoValue, heard |-> {},
     live |-> FALSE, expired |-> FALSE, stored |-> NoValue, evicted |-> {}]

\* The invocation ends: callTool's try/catch turns the handler's outcome into the result.
Finish(call, out) ==
    [call EXCEPT !.pc = "done", !.stage = "", !.pending = {}, !.out = out,
                 !.result = callToolCatch(out)]

\* The invocation suspends on one upstream request.
Await(call, stage) ==
    [call EXCEPT !.pc = "await", !.stage = stage, !.pending = {<<0, 0>>}, !.nreq = @ + 1]

(***************************************************************************)
(* get-file                                                                *)
(***************************************************************************)
\* getFigmaFile from the formatting of fileData to its return; reading a property
\* of null throws inside the handler's try.
getFileFormat(fileKey, fileData) ==
    IF fileData.t = "null"
    THEN HandlerCatch(<<"File not found: ", fileKey, ". Please verify the file key is correct.">>,
                      <<"Access denied. Please verify your Figma access token has the correct permissions.">>,
                      "Error accessing file: ",
                      <<"Cannot read properties of null (reading 'name')">>)
    ELSE Return(Result(FALSE,
                       <<"File details for: ", IF fileData.t = "object" THEN fileData.name ELSE "undefined">>,
                       fileData))

\* getFigmaFile from its entry to the cache hit or the upstream request.
getFigmaFile(call, args, c, t) ==
    LET issues == IdIssues(args, "fileKey")
        fileKey == Field(args, "fileKey").s
        cacheKey == "file:" \o fileKey
        got == CacheGet(c, cacheKey, t)
        read == [call EXCEPT !.fileKey = fileKey, !.key = cacheKey,
                             !.live = Live(c, cacheKey, t),
                             !.expired = cacheKey \in CacheKeys(c) /\ ~Live(c, cacheKey, t),
                             !.stored = IF Live(c, cacheKey, t) THEN c[CacheIndex(c, cacheKey)].value
                                        ELSE NoValue]
    IN  IF issues # <<>> THEN [call |-> Finish(call, ThrowZod(issues)), cache |-> c]
        ELSE IF Truthy(got.value)
        THEN [call |-> Finish(read, getFileFormat(fileKey, got.value)), cache |-> got.cache]
        ELSE [call |-> Await(read, "file"), cache |-> got.cache]

\* Mutant of getFigmaFileResume: the fetched body is not written to the cache.
getFigmaFileResume_NoStore(call, o, c, t) ==
    IF o.ok
    THEN [call |-> Finish(call, getFileFormat(call.fileKey, o.data)), cache |-> c]
    ELSE [call |-> Finish(call,
                     HandlerCatch(<<"File not found: ", call.fileKey, ". Please verify the file key is correct.">>,
                                  <<"Access denied. Please verify your Figma access token has the correct permissions.">>,
                                  "Error accessing file: ", o.msg)),
          cache |-> c]

\* A getFigmaFile that caches the outcome of a failed request too.
getFigmaFileResume_StoresFailure(call, o, c, t) ==
    IF o.ok
    THEN [call |-> Finish(call, getFileFormat(call.fileKey, o.data)),
          cache |-> CacheSet(c, call.key, o.data, t)]
    ELSE [call |-> Finish(call,
                     HandlerCatch(<<"File not found: ", call.fileKey, ". Please verify the file key is correct.">>,
                                  <<"Access denied. Please verify your Figma access token has the correct permissions.">>,
                                  "Error accessing file: ", o.msg)),
          cache |-> CacheSet(c, call.key, o.data, t)]

\* A getFigmaFile that sends a failed request once more.
getFigmaFileResume_RetryOnce(call, o, c, t) ==
    IF o.ok
    THEN [call |-> Finish(call, getFileFormat(call.fileKey, o.data)),
          cache |-> CacheSet(c, call.key, o.data, t)]
    ELSE IF call.nreq < 2
    THEN [call |-> Await(call, "file"), cache |-> c]
    ELSE [call |-> Finish(call,
                     HandlerCatch(<<"File not found: ", call.fileKey, ". Please verify the file key is correct.">>,
                                  <<"Access denied. Please verify your Figma access token has the correct permissions.">>,
                                  "Error accessing file: ", o.msg)),
          cache |-> c]

\* getFigmaFile resumed with the outcome of its request.
getFigmaFileResume(call, o, c, t) ==
    IF o.ok
    THEN [call |-> Finish(call, getFileFormat(call.fileKey, o.data)),
          cache |-> CacheSet(c, call.key, o.data, t)]
    ELSE [call |-> Finish(call,
                     HandlerCatch(<<"File not found: ", call.fileKey, ". Please verify the file key is correct.">>,
                                  <<"Access denied. Please verify your Figma access token has the correct permissions.">>,
                                  "Error accessing file: ", o.msg)),
          cache |-> c]

(***************************************************************************)
(* list-files: no try/catch of its own, a failure goes to callTool's.      *)
(***************************************************************************)
listFilesFormat(filesData) == Return(Result(FALSE, <<"JSON.stringify">>, filesData))

listFigmaFiles(call, args, c, t) ==
    LET issues == IdIssues(args, "projectId")
        projectId == Field(args, "projectId").s
        cacheKey == "project:" \o projectId
        got == CacheGet(c, cacheKey, t)
        read == [call EXCEPT !.fileKey = projectId, !.key = cacheKey,
                             !.live = Live(c, cacheKey, t),
                             !.expired = cacheKey \in CacheKeys(c) /\ ~Live(c, cacheKey, t),
                             !.stored = IF Live(c, cacheKey, t) THEN c[CacheIndex(c, cacheKey)].value
                                        ELSE NoValue]
    IN  IF issues # <<>> THEN [call |-> Finish(call, ThrowZod(issues)), cache |-> c]
        ELSE IF Truthy(got.value)
        THEN [call |-> Finish(read, listFilesFormat(got.value)), cache |-> got.cache]
        ELSE [call |-> Await(read, "files"), cache |-> got.cache]

listFigmaFilesResume(call, o, c, t) ==
    IF o.ok
    THEN [call |-> Finish(call, listFilesFormat(o.data)), cache |-> CacheSet(c, call.key, o.data, t)]
    ELSE [call |-> Finish(call, Throw(o.msg)), cache |-> c]

(***************************************************************************)
(* Variables, as the variables endpoint lists them.  `ref` is               *)
(* valuesByMode.default.referencedVariableId, "" when there is none, and   *)
(* `other` the referencedVariableId of a mode that is not named default.   *)
(***************************************************************************)
Var(id, resolvedType, ref) ==
    [id |-> id, name |-> "name-" \o id, resolvedType |-> resolvedType, ref |-> ref, other |-> ""]

\* variables.find(v => v.id === id): the place of the first such variable, 0 if none.
FindVar(variables, id) ==
    IF \E i \in 1..Len(variables) : variables[i].id = id
    THEN CHOOSE i \in 1..Len(variables) :
            variables[i].id = id /\ \A j \in 1..(i - 1) : variables[j].id # id
    ELSE 0

\* The TypeError of variables.find(...) on a body that is no array.
NotAnArray(body) ==
    IF body.t = "null" THEN <<"Cannot read properties of null (reading 'find')">>
    ELSE <<"variables.find is not a function">>

(***************************************************************************)
(* update_variables and delete_variables.  `items` are the identifiers of  *)
(* the updates (the variableIds); line i is the outcome of item i, <<>>    *)
(* while its request is outstanding.                                       *)
(***************************************************************************)
BatchWords(name) ==
    IF name = "update_variables"
    THEN [field |-> "updates", sub |-> ".variableId", head |-> "Variable update results:",
          done |-> "Updated ", fail |-> "Failed to update ", prefix |-> "Error updating variables: "]
    ELSE [field |-> "variableIds", sub |-> "", head |-> "Variable deletion results:",
          done |-> "Deleted ", fail |-> "Failed to delete ", prefix |-> "Error deleting variables: "]

\* results.map(r => `- ${r}`).join('\n') after the head line.
RECURSIVE Listed(_)
Listed(lines) == IF lines = <<>> THEN <<>> ELSE <<"- ">> \o Head(lines) \o Listed(Tail(lines))

BatchResult(call, lines) ==
    Return(Result(FALSE, <<BatchWords(call.name).head>> \o Listed(lines), NoValue))

BatchCatch(call, msg) ==
    HandlerCatch(<<"File not found: ", call.fileKey>>,
                 <<"Access denied. Please verify your Figma access token has write permissions.">>,
                 BatchWords(call.name).prefix, msg)

\* updateVariables / deleteVariables from the entry to the request of the list.
batchVariables(call, args) ==
    LET w == BatchWords(call.name)
        issues == IdIssues(args, "fileKey") \o ArrayIssues(args, w.field, w.sub)
                  \o (IF call.name = "delete_variables" THEN OptionalBoolIssues(args, "softDelete")
                      ELSE <<>>)
    IN  IF issues # <<>> THEN Finish(call, ThrowZod(issues))
        ELSE Await([call EXCEPT !.fileKey = Field(args, "fileKey").s,
                                !.items = ItemIds(Field(args, w.field)),
                                !.soft = Field(args, "softDelete").s = "true"], "list")

\* A pass over the list that issues the request of every item, found or not.
batchVariablesList_WritesAll(call, o) ==
    LET n == Len(call.items)
        lines == [i \in 1..n |-> <<>>]
    IN  IF ~o.ok THEN Finish(call, BatchCatch(call, o.msg))
        ELSE IF n > 0 /\ o.data.t # "array"
        THEN Finish([call EXCEPT !.list = o.data], BatchCatch(call, NotAnArray(o.data)))
        ELSE IF n = 0
        THEN Finish([call EXCEPT !.list = o.data, !.lines = lines], BatchResult(call, lines))
        ELSE [call EXCEPT !.stage = "items", !.list = o.data, !.lines = lines,
                          !.pending = {<<i, 0>> : i \in 1..n},
                          !.nreq = @ + n]

\* ... resumed with the list: every item is looked up, an item found gets its
\* request, all in one synchronous pass; Promise.all then awaits them.
batchVariablesList(call, o) ==
    LET n == Len(call.items)
        variables == o.data.vars
        found == {i \in 1..n : FindVar(variables, call.items[i]) # 0}
        lines == [i \in 1..n |->
                    IF i \in found THEN <<>> ELSE <<"Variable ", call.items[i], " not found">>]
    IN  IF ~o.ok THEN Finish(call, BatchCatch(call, o.msg))
        ELSE IF n > 0 /\ o.data.t # "array"
        THEN Finish([call EXCEPT !.list = o.data], BatchCatch(call, NotAnArray(o.data)))
        ELSE IF found = {}
        THEN Finish([call EXCEPT !.list = o.data, !.lines = lines], BatchResult(call, lines))
        ELSE [call EXCEPT !.stage = "items", !.list = o.data, !.lines = lines,
                          !.pending = {<<i, 0>> : i \in found},
                          !.nreq = @ + Cardinality(found)]

\* The item step without the per-item catch: a failing item rejects the batch.
batchVariablesItem_Abort(call, tag, o) ==
    LET w == BatchWords(call.name)
        i == tag[1]
        variable == call.list.vars[FindVar(call.list.vars, call.items[i])]
        line == <<w.done, variable.name>> \o (IF call.soft THEN <<" (soft delete)">> ELSE <<>>)
        lines == [call.lines EXCEPT ![i] = line]
        pending == call.pending \ {tag}
    IN  IF ~o.ok THEN Finish(call, BatchCatch(call, o.msg))
        ELSE IF pending = {}
        THEN Finish([call EXCEPT !.lines = lines], BatchResult(call, lines))
        ELSE [call EXCEPT !.lines = lines, !.pending = pending]

\* ... resumed with the outcome of the request of item tag[1].
batchVariablesItem(call, tag, o) ==
    LET w == BatchWords(call.name)
        i == tag[1]
        variable == call.list.vars[FindVar(call.list.vars, call.items[i])]
        line == IF o.ok
                THEN <<w.done, variable.name>> \o (IF call.soft THEN <<" (soft delete)">> ELSE <<>>)
                ELSE <<w.fail, variable.name, ": ">> \o o.msg
        lines == [call.lines EXCEPT ![i] = line]
        pending == call.pending \ {tag}
    IN  IF pending = {}
        THEN Finish([call EXCEPT !.lines = lines], BatchResult(call, lines))
        ELSE [call EXCEPT !.lines = lines, !.pending = pending]

(***************************************************************************)
(* The dependency graph: a Map from a variable's identifier to the list of *)
(* the identifiers it references, `keys` in insertion order.               *)
(***************************************************************************)
EmptyGraph == [keys |-> <<>>, adj |-> <<>>]

\* graph.get(id) || []
Deps(graph, id) == IF id \in DOMAIN graph.adj THEN graph.adj[id] ELSE <<>>

\* One step of the forEach of buildDependencyGraph.
AddVariable(graph, variable) ==
    IF variable.resolvedType # "VARIABLE_REFERENCE" THEN graph
    ELSE LET sourceId == variable.id
             has == sourceId \in DOMAIN graph.adj
             deps == (IF has THEN graph.adj[sourceId] ELSE <<>>)
                     \o (IF variable.ref # "" THEN <<variable.ref>> ELSE <<>>)
         IN  [keys |-> IF has THEN graph.keys ELSE Append(graph.keys, sourceId),
              adj |-> [k \in DOMAIN graph.adj \cup {sourceId} |->
                          IF k = sourceId THEN deps ELSE graph.adj[k]]]

RECURSIVE AddVariables(_, _)
AddVariables(graph, variables) ==
    IF variables = <<>> THEN graph
    ELSE AddVariables(AddVariable(graph, Head(variables)), Tail(variables))

buildDependencyGraph(variables) == AddVariables(EmptyGraph, variables)

\* detectCycles without the removal of the start from the path on the way back.
RECURSIVE detectCycles_NoBacktrack(_, _, _, _), detectCyclesDeps_NoBacktrack(_, _, _, _)
detectCycles_NoBacktrack(graph, start, visited, path) ==
    IF start \in path THEN [r |-> TRUE, visited |-> visited, path |-> path]
    ELSE IF start \in visited THEN [r |-> FALSE, visited |-> visited, path |-> path]
    ELSE detectCyclesDeps_NoBacktrack(graph, Deps(graph, start),
                                      visited \cup {start}, path \cup {start})
detectCyclesDeps_NoBacktrack(graph, deps, visited, path) ==
    IF deps = <<>> THEN [r |-> FALSE, visited |-> visited, path |-> path]
    ELSE LET d == detectCycles_NoBacktrack(graph, Head(deps), visited, path)
         IN  IF d.r THEN d
             ELSE detectCyclesDeps_NoBacktrack(graph, Tail(deps), d.visited, d.path)

\* detectCycles: the depth-first search.  visited and path are sets the calls
\* share and change, so a call gives them back with its answer r.
RECURSIVE detectCycles(_, _, _, _), detectCyclesDeps(_, _, _, _)
detectCycles(graph, start, visited, path) ==
    IF start \in path THEN [r |-> TRUE, visited |-> visited, path |-> path]
    ELSE IF start \in visited THEN [r |-> FALSE, visited |-> visited, path |-> path]
    ELSE LET loop == detectCyclesDeps(graph, Deps(graph, start),
                                      visited \cup {start}, path \cup {start})
         IN  IF loop.r THEN loop
             ELSE [r |-> FALSE, visited |-> loop.visited, path |-> loop.path \ {start}]
\* The for loop over the dependencies of a start, from `deps` on.
detectCyclesDeps(graph, deps, visited, path) ==
    IF deps = <<>> THEN [r |-> FALSE, visited |-> visited, path |-> path]
    ELSE LET d == detectCycles(graph, Head(deps), visited, path)
         IN  IF d.r THEN d ELSE detectCyclesDeps(graph, Tail(deps), d.visited, d.path)

(***************************************************************************)
(* validate_references.  `lines` are the results, each the identifier      *)
(* checked and the error.                                                  *)
(***************************************************************************)
Problem(variableId, error) == <<variableId, ": ">> \o error

\* The results of one identifier without the check of its references' targets.
CheckVariable_NoDangling(variables, graph, varId) ==
    IF FindVar(variables, varId) = 0 THEN <<Problem(varId, <<"Variable not found">>)>>
    ELSE IF detectCycles(graph, varId, {}, {}).r
         THEN <<Problem(varId, <<"Circular reference detected">>)>>
         ELSE <<>>

\* The body of the loop over varsToCheck: the results of one identifier.
CheckVariable(variables, graph, varId) ==
    IF FindVar(variables, varId) = 0 THEN <<Problem(varId, <<"Variable not found">>)>>
    ELSE LET dependencies == Deps(graph, varId)
             absent == SelectSeq(dependencies, LAMBDA depId : FindVar(variables, depId) = 0)
         IN  (IF detectCycles(graph, varId, {}, {}).r
              THEN <<Problem(varId, <<"Circular reference detected">>)>>
              ELSE <<>>)
             \o [i \in 1..Len(absent) |->
                    Problem(varId, <<"Referenced variable ", absent[i], " not found">>)]

\* The loop leaving at the first identifier that has a problem.
RECURSIVE CheckVariables_StopAtFirst(_, _, _)
CheckVariables_StopAtFirst(variables, graph, varsToCheck) ==
    IF varsToCheck = <<>> THEN <<>>
    ELSE LET here == CheckVariable(variables, graph, Head(varsToCheck))
         IN  IF here # <<>> THEN <<Head(here)>>
             ELSE CheckVariables_StopAtFirst(variables, graph, Tail(varsToCheck))

\* for (const varId of varsToCheck)
RECURSIVE CheckVariables(_, _, _)
CheckVariables(variables, graph, varsToCheck) ==
    IF varsToCheck = <<>> THEN <<>>
    ELSE CheckVariable(variables, graph, Head(varsToCheck))
         \o CheckVariables(variables, graph, Tail(varsToCheck))

\* The TypeError of variables.forEach(...) on a body that is no array.
NotIterable(body) ==
    IF body.t = "null" THEN <<"Cannot read properties of null (reading 'forEach')">>
    ELSE <<"variables.forEach is not a function">>

ValidateCatch(call, msg) ==
    HandlerCatch(<<"File not found: ", call.fileKey>>,
                 <<"Access denied. Please verify your Figma access token has read permissions.">>,
                 "Error validating references: ", msg)

\* validateReferences from the entry to the request of the variables.
validateReferences(call, args) ==
    LET issues == IdIssues(args, "fileKey") \o OptionalArrayIssues(args, "variableIds", "")
        variableIds == Field(args, "variableIds")
    IN  IF issues # <<>> THEN Finish(call, ThrowZod(issues))
        ELSE Await([call EXCEPT !.fileKey = Field(args, "fileKey").s,
                                !.given = variableIds.t # "undefined",
                                !.items = IF variableIds.t = "undefined" THEN <<>>
                                          ELSE ItemIds(variableIds)], "variables")

\* ... resumed with the variables.
validateReferencesResume(call, o) ==
    IF ~o.ok THEN Finish(call, ValidateCatch(call, o.msg))
    ELSE IF o.data.t # "array"
    THEN Finish([call EXCEPT !.list = o.data], ValidateCatch(call, NotIterable(o.data)))
    ELSE LET variables == o.data.vars
             graph == buildDependencyGraph(variables)
             varsToCheck == IF call.given THEN call.items ELSE graph.keys
             results == CheckVariables(variables, graph, varsToCheck)
         IN  Finish([call EXCEPT !.list = o.data, !.lines = results],
                    Return(Result(FALSE,
                        IF Len(results) > 0
                        THEN <<"Validation issues found:">> \o Listed(results)
                        ELSE <<"All references are valid">>,
                        NoValue)))

(***************************************************************************)
(* create_variables.  A variable argument is its name and its type.        *)
(***************************************************************************)
NewVariable(name, type) == [t |-> "variable", s |-> name, items |-> <<type>>]

\* z.enum(["COLOR", "FLOAT", "STRING"]) on the type of the variables from the i-th.
RECURSIVE TypeIssues(_, _)
TypeIssues(items, i) ==
    IF i > Len(items) THEN <<>>
    ELSE (IF items[i].items[1] \in {"COLOR", "FLOAT", "STRING"} THEN <<>>
          ELSE AsIssues("variables." \o ToString(i - 1) \o ".type", <<"Invalid enum value">>))
         \o TypeIssues(items, i + 1)

CreateVariablesIssues(args) ==
    LET p == Field(args, "variables") IN
    IdIssues(args, "fileKey")
    \o (IF p.t = "undefined" THEN AsIssues("variables", <<"Required">>)
        ELSE IF p.t # "array" THEN AsIssues("variables", <<"Expected array">>)
        ELSE TypeIssues(p.items, 1))

WriteDenied == <<"Access denied. Please verify your Figma access token has write permissions.">>

CreateVariablesCatch(call, msg) ==
    HandlerCatch(<<"File not found: ", call.fileKey>>, WriteDenied,
                 "Error creating variables: ", msg)

\* The TypeError of collection.id on a body that is null.
NoCollectionId == <<"Cannot read properties of null (reading 'id')">>

\* createVariables from the entry to the request of the collection; `lines` are
\* the lines of the eventual answer.
createVariables(call, args) ==
    LET issues == CreateVariablesIssues(args)
        variables == Field(args, "variables").items
    IN  IF issues # <<>> THEN Finish(call, ThrowZod(issues))
        ELSE Await([call EXCEPT !.fileKey = Field(args, "fileKey").s,
                                !.lines = [i \in 1..Len(variables) |->
                                    <<variables[i].s, " (", variables[i].items[1], ")">>]],
                   "collection")

\* ... resumed with the collection: the request that creates the variables.
createVariablesCollection(call, o) ==
    IF ~o.ok THEN Finish(call, CreateVariablesCatch(call, o.msg))
    ELSE IF o.data.t = "null" THEN Finish(call, CreateVariablesCatch(call, NoCollectionId))
    ELSE Await(call, "create")

\* ... resumed with the created variables.
createVariablesCreated(call, o) ==
    IF ~o.ok THEN Finish(call, CreateVariablesCatch(call, o.msg))
    ELSE Finish(call, Return(Result(FALSE,
            <<"Successfully created ", ToString(Len(call.lines)), " variables:">>
            \o Listed(call.lines), NoValue)))

(***************************************************************************)
(* create_reference.  `items` are the source and the target identifier.    *)
(***************************************************************************)
CreateReferenceIssues(args) ==
    IdIssues(args, "fileKey") \o IdIssues(args, "sourceId") \o IdIssues(args, "targetId")
    \o (IF Field(args, "expression").t \in {"undefined", "string"} THEN <<>>
        ELSE AsIssues("expression", <<"Expected string">>))

CreateReferenceCatch(call, msg) ==
    HandlerCatch(<<"File not found: ", call.fileKey>>, WriteDenied,
                 "Error creating reference: ", msg)

\* createReference from the entry to the request of the variables.
createReference(call, args) ==
    LET issues == CreateReferenceIssues(args) IN
    IF issues # <<>> THEN Finish(call, ThrowZod(issues))
    ELSE Await([call EXCEPT !.fileKey = Field(args, "fileKey").s,
                            !.items = <<Field(args, "sourceId").s, Field(args, "targetId").s>>,
                            !.expression = Field(args, "expression").s], "lookup")

\* A lookup that checks the source alone.
createReferenceLookup_SourceOnly(call, o) ==
    IF ~o.ok THEN Finish(call, CreateReferenceCatch(call, o.msg))
    ELSE IF o.data.t # "array"
    THEN Finish([call EXCEPT !.list = o.data], CreateReferenceCatch(call, NotAnArray(o.data)))
    ELSE LET listed == [call EXCEPT !.list = o.data] IN
         IF FindVar(o.data.vars, call.items[1]) = 0
         THEN Finish(listed, Return(Result(TRUE,
                <<"Source variable ", call.items[1], " not found">>, NoValue)))
         ELSE Await(listed, "reference")

\* ... resumed with the variables: both ends are looked up, then the reference
\* is requested.
createReferenceLookup(call, o) ==
    IF ~o.ok THEN Finish(call, CreateReferenceCatch(call, o.msg))
    ELSE IF o.data.t # "array"
    THEN Finish([call EXCEPT !.list = o.data], CreateReferenceCatch(call, NotAnArray(o.data)))
    ELSE LET listed == [call EXCEPT !.list = o.data] IN
         IF FindVar(o.data.vars, call.items[1]) = 0
         THEN Finish(listed, Return(Result(TRUE,
                <<"Source variable ", call.items[1], " not found">>, NoValue)))
         ELSE IF FindVar(o.data.vars, call.items[2]) = 0
         THEN Finish(listed, Return(Result(TRUE,
                <<"Target variable ", call.items[2], " not found">>, NoValue)))
         ELSE Await(listed, "reference")

\* ... resumed with the outcome of the reference request.
createReferencePut(call, o) ==
    LET variables == call.list.vars
        source == variables[FindVar(variables, call.items[1])]
        target == variables[FindVar(variables, call.items[2])]
    IN  IF ~o.ok THEN Finish(call, CreateReferenceCatch(call, o.msg))
        ELSE Finish(call, Return(Result(FALSE,
                <<"Created reference from ", source.name, " to ", target.name>>
                \o (IF call.expression # "" THEN <<" with expression: ", call.expression>>
                    ELSE <<>>),
                NoValue)))

(***************************************************************************)
(* create_theme.  A mode argument is its name and the identifiers of its   *)
(* variables.  lines[m] is the line of mode m and sub[m] the lines of its  *)
(* variables, each <<>> while it is outstanding.  The request of mode m is *)
(* tagged <<m, 0>>, the request of its v-th variable <<m, v>>.             *)
(***************************************************************************)
Mode(name, ids) == [t |-> "mode", s |-> name, items |-> ids]

RECURSIVE ModeIssues(_, _)
ModeIssues(modes, m) ==
    IF m > Len(modes) THEN <<>>
    ELSE ItemIssues("modes." \o ToString(m - 1) \o ".variables", ".variableId", modes[m].items, 1)
         \o ModeIssues(modes, m + 1)

CreateThemeIssues(args) ==
    LET p == Field(args, "modes") IN
    IdIssues(args, "fileKey") \o StringIssues(args, "name")
    \o (IF p.t = "undefined" THEN AsIssues("modes", <<"Required">>)
        ELSE IF p.t # "array" THEN AsIssues("modes", <<"Expected array">>)
        ELSE ModeIssues(p.items, 1))

CreateThemeCatch(call, msg) ==
    HandlerCatch(<<"File not found: ", call.fileKey>>, WriteDenied, "Error creating theme: ", msg)

\* createTheme from the entry to the request of the collection.
createTheme(call, args) ==
    LET issues == CreateThemeIssues(args)
        modes == Field(args, "modes").items
    IN  IF issues # <<>> THEN Finish(call, ThrowZod(issues))
        ELSE Await([call EXCEPT !.fileKey = Field(args, "fileKey").s,
                                !.themeName = Field(args, "name").s,
                                !.modes = [m \in 1..Len(modes) |->
                                    [name |-> modes[m].s, vars |-> ItemIds(modes[m])]]],
                   "theme")

\* modeUpdates.map(msg => `  - ${msg}`).join('\n') after the line of the mode.
RECURSIVE Indented(_)
Indented(lines) ==
    IF lines = <<>> THEN <<>> ELSE <<"  - ">> \o Head(lines) \o Indented(Tail(lines))

CreatedMode(mode, updates) == <<"Created mode ", mode.name, ":">> \o Indented(updates)
FailedMode(mode, msg) == <<"Failed to create mode ", mode.name, ": ">> \o msg

\* The theme ends once no request is outstanding.
ThemeStep(call, lines, sub, pending, issued) ==
    LET next == [call EXCEPT !.lines = lines, !.sub = sub, !.pending = pending,
                             !.stage = "modes", !.nreq = @ + issued]
    IN  IF pending # {} THEN next
        ELSE Finish(next, Return(Result(FALSE,
                <<"Created theme \"", call.themeName, "\" with modes:">> \o Flatten(lines),
                NoValue)))

\* ... resumed with the collection: every mode issues its request in one pass;
\* reading the id of a null collection throws inside each mode's own try.
createThemeCollection(call, o) ==
    LET n == Len(call.modes) IN
    IF ~o.ok THEN Finish(call, CreateThemeCatch(call, o.msg))
    ELSE IF o.data.t = "null"
    THEN ThemeStep(call, [m \in 1..n |-> FailedMode(call.modes[m], NoCollectionId)],
                   [m \in 1..n |-> <<>>], {}, 0)
    ELSE ThemeStep(call, [m \in 1..n |-> <<>>], [m \in 1..n |-> <<>>],
                   {<<m, 0>> : m \in 1..n}, n)

\* A createTheme in which the failure of one mode ends the whole invocation.
createThemeMode_FailsWhole(call, tag, o) ==
    LET m == tag[1]
        v == tag[2]
        mode == call.modes[m]
        n == Len(mode.vars)
        rest == call.pending \ {tag}
    IN  IF v = 0
        THEN IF ~o.ok
             THEN Finish(call, CreateThemeCatch(call, o.msg))
             ELSE IF n = 0
             THEN ThemeStep(call, [call.lines EXCEPT ![m] = CreatedMode(mode, <<>>)],
                            call.sub, rest, 0)
             ELSE ThemeStep(call, call.lines, [call.sub EXCEPT ![m] = [j \in 1..n |-> <<>>]],
                            rest \cup {<<m, j>> : j \in 1..n}, n)
        ELSE LET line == IF o.ok THEN <<"Set ", mode.vars[v], " for mode ", mode.name>>
                         ELSE <<"Failed to set ", mode.vars[v], " for mode ", mode.name, ": ">>
                              \o o.msg
                 updates == [call.sub[m] EXCEPT ![v] = line]
                 sub == [call.sub EXCEPT ![m] = updates]
             IN  IF \E t \in rest : t[1] = m
                 THEN ThemeStep(call, call.lines, sub, rest, 0)
                 ELSE ThemeStep(call, [call.lines EXCEPT ![m] = CreatedMode(mode, updates)],
                                sub, rest, 0)

\* ... resumed with the outcome of the request of mode tag[1] (tag[2] = 0) or of
\* its tag[2]-th variable.
createThemeMode(call, tag, o) ==
    LET m == tag[1]
        v == tag[2]
        mode == call.modes[m]
        n == Len(mode.vars)
        rest == call.pending \ {tag}
    IN  IF v = 0
        THEN IF ~o.ok
             THEN ThemeStep(call, [call.lines EXCEPT ![m] = FailedMode(mode, o.msg)],
                            call.sub, rest, 0)
             ELSE IF n = 0
             THEN ThemeStep(call, [call.lines EXCEPT ![m] = CreatedMode(mode, <<>>)],
                            call.sub, rest, 0)
             ELSE ThemeStep(call, call.lines, [call.sub EXCEPT ![m] = [j \in 1..n |-> <<>>]],
                            rest \cup {<<m, j>> : j \in 1..n}, n)
        ELSE LET line == IF o.ok THEN <<"Set ", mode.vars[v], " for mode ", mode.name>>
                         ELSE <<"Failed to set ", mode.vars[v], " for mode ", mode.name, ": ">>
                              \o o.msg
                 updates == [call.sub[m] EXCEPT ![v] = line]
                 sub == [call.sub EXCEPT ![m] = updates]
             IN  IF \E t \in rest : t[1] = m
                 THEN ThemeStep(call, call.lines, sub, rest, 0)
                 ELSE ThemeStep(call, [call.lines EXCEPT ![m] = CreatedMode(mode, updates)],
                                sub, rest, 0)

(***************************************************************************)
(* FigmaHandler.callTool: the switch on the tool name.  Start runs the     *)
(* named handler to its first suspension point, Resume runs it on from the *)
(* outcome `o` of the request `tag` it was suspended on.                   *)
(***************************************************************************)
\* callTool whose default case falls into get-file.
callTool_Fallthrough(call, name, args, c, t) ==
    IF name \in {"create_reference", "validate_references", "create_theme", "delete_variables",
                 "update_variables", "create_variables", "list-files"}
    THEN [call |-> Finish(call, Return(Result(TRUE, <<"Unknown tool: ", name>>, NoValue))),
          cache |-> c]
    ELSE getFigmaFile(call, args, c, t)

callTool(call, name, args, c, t) ==
    CASE name = "get-file" -> getFigmaFile(call, args, c, t)
      [] name = "list-files" -> listFigmaFiles(call, args, c, t)
      [] name \in {"update_variables", "delete_variables"} ->
            [call |-> batchVariables(call, args), cache |-> c]
      [] name = "validate_references" -> [call |-> validateReferences(call, args), cache |-> c]
      [] name = "create_variables" -> [call |-> createVariables(call, args), cache |-> c]
      [] name = "create_reference" -> [call |-> createReference(call, args), cache |-> c]
      [] name = "create_theme" -> [call |-> createTheme(call, args), cache |-> c]
      [] OTHER -> [call |-> Finish(call, Return(Result(TRUE, <<"Unknown tool: ", name>>, NoValue))),
                   cache |-> c]

Resume(call, tag, o, c, t) ==
    CASE call.stage = "file" -> getFigmaFileResume(call, o, c, t)
      [] call.stage = "files" -> listFigmaFilesResume(call, o, c, t)
      [] call.stage = "list" -> [call |-> batchVariablesList(call, o), cache |-> c]
      [] call.stage = "variables" -> [call |-> validateReferencesResume(call, o), cache |-> c]
      [] call.stage = "collection" -> [call |-> createVariablesCollection(call, o), cache |-> c]
      [] call.stage = "create" -> [call |-> createVariablesCreated(call, o), cache |-> c]
      [] call.stage = "lookup" -> [call |-> createReferenceLookup(call, o), cache |-> c]
      [] call.stage = "reference" -> [call |-> createReferencePut(call, o), cache |-> c]
      [] call.stage = "theme" -> [call |-> createThemeCollection(call, o), cache |-> c]
      [] call.stage = "modes" -> [call |-> createThemeMode(call, tag, o), cache |-> c]
      [] call.stage = "items" -> [call |-> batchVariablesItem(call, tag, o), cache |-> c]

(***************************************************************************)
(* MCPServer: the CallTool request handler's counters.                     *)
(***************************************************************************)
\* The handler's try/catch around callTool, once the invocation has ended.
Completed(cs, call) ==
    IF call.pc # "done" THEN cs
    ELSE IF call.result.kind = "result"
    THEN [cs EXCEPT !.successfulRequests = @ + 1]
    ELSE [cs EXCEPT !.failedRequests = @ + 1]

(***************************************************************************)
(* The state after construction.                                           *)
(***************************************************************************)
\* A number or null, as the rate limit fields hold it; undefined before the
\* first report.
Num(n) == [t |-> "number", n |-> n]
Null == [t |-> "null", n |-> 0]
Undef == [t |-> "undefined", n |-> 0]

\* No request has been made of the handler directly.
NoRequest == [pc |-> "none", endpoint |-> "", fetches |-> 0, error |-> <<>>]

\* FigmaHandler after construction with a token.  rateLimitRemaining and
\* rateLimitReset are its fields, stats the two fields of figmaApiStats its
\* reports overwrite; request is a call of makeFigmaRequest outside any tool:
\* where it is, the network calls it has attempted, and the message it threw.
\* History in `tools`: the names the last tools/list answer advertised.
\* History: the rate limit headers of the response that came last.
NoHeaders == [seen |-> FALSE, remaining |-> Undefined, reset |-> Undefined]

NewHandler(token) ==
    [figmaToken |-> token, rateLimitRemaining |-> Null, rateLimitReset |-> Null,
     stats |-> [rateLimitRemaining |-> Undef, rateLimitReset |-> Undef],
     request |-> NoRequest, headers |-> NoHeaders, tools |-> {}]

SessionIds == {"s1", "s2"}

\* The transports the process can be given: those of SessionIds, and more for
\* the runs that count connection errors.
ConnIds == SessionIds \cup {"s3", "s4", "s5", "s6"}

\* No POST /messages answered yet, no GET /health answered yet.
NoPost == [n |-> 0, sessionId |-> "", status |-> 0, error |-> "", to |-> ""]
NoHealth == [n |-> 0, status |-> 0, isHealthy |-> FALSE, state |-> "", errors |-> 0, activeSessions |-> 0]

\* MCPServer after construction.  state, httpServer and healthCheckInterval are
\* the fields; started is the promise start() returned; stop and current are
\* where stop() is and the session whose close it awaits; order is the order in
\* which the session ids were put in the sessions Map.  History: escaped are
\* the handlers an exception left, crashed says the process has ended on one,
\* attempted and closeFailed are the sessions stop() called close on and those
\* whose close threw, during are the sessions registered at some time since
\* stop() was called, post and health are the last answers of POST /messages
\* and GET /health.
NewServer ==
    [state |-> "starting", httpServer |-> "null", healthCheckInterval |-> FALSE,
     started |-> "none", stop |-> "idle", current |-> "", order |-> <<>>,
     escaped |-> {}, crashed |-> FALSE, attempted |-> {}, closeFailed |-> {}, during |-> {},
     post |-> NoPost, health |-> NoHealth,
     timers |-> 0, ticks |-> 0, published |-> NoHealth]

\* The process is running.
Alive == ~server.crashed

\* startServer: where it stands (idle before the call, validating while
\* validateToken waits for its answer, validated once the token passed and the
\* server was constructed, failed once it threw), the token it was given, the
\* answer validateToken got and the error startServer threw.
NewStartup(token) == [pc |-> "idle", token |-> token, answer |-> "none", error |-> <<>>]

\* startServer after validateToken has passed and new MCPServer(...) was made.
TokenValidated == [pc |-> "validated", token |-> "token", answer |-> "ok", error |-> <<>>]

FreeConn == [hs |-> "none", open |-> FALSE, during |-> {}]

Init ==
    /\ sessions = {}
    /\ conn = [s \in ConnIds |-> FreeConn]
    /\ calls = EmptyBag
    /\ last = IdleCall
    /\ cache = <<>>
    /\ now = 0
    /\ apiStats = [totalApiCalls |-> 0, failedApiCalls |-> 0]
    /\ connectionStats = [totalRequests |-> 0, successfulRequests |-> 0, failedRequests |-> 0]
    /\ connectionErrors = 0
    /\ recency = <<>>
    /\ server = NewServer
    /\ handler = NewHandler("token")
    /\ startup = TokenValidated

\* History: the keys that left the cache in a step of the invocation.
Left(call, before, after) == [call EXCEPT !.evicted = @ \cup (CacheKeys(before) \ CacheKeys(after))]

(***************************************************************************)
(* Actions.                                                                *)
(***************************************************************************)
\* GET /sse: a transport with a fresh session id is registered; the handshake
\* (mcpServer.connect, transport.start) is awaited.
Connect(s) ==
    /\ Alive
    /\ server.httpServer = "listening"
    /\ conn[s].hs = "none"
    /\ sessions' = sessions \cup {s}
    /\ conn' = [conn EXCEPT ![s] = [hs |-> "pending", open |-> TRUE, during |-> {}]]
    /\ server' = [server EXCEPT !.order = Append(@, s),
                                !.during = IF server.stop = "idle" THEN @ ELSE @ \cup {s}]
    /\ UNCHANGED <<startup, calls, last, cache, now, apiStats, connectionStats, connectionErrors, recency, handler>>

\* The awaited handshake of GET /sse ends; its failure lands in the catch block.
\* handleError counts the error and emits 'error'.  Nothing in the repository
\* listens for 'error' on the MCPServer, so the emit throws out of the handler
\* `from`; `fatal` says whether the process ends on that exception.
handleError(srv, from, fatal) ==
    [srv EXCEPT !.escaped = @ \cup {from}, !.crashed = fatal]

\* A catch block that counts the error and leaves the session registered.
Handshake_KeepsSession(s, ok) ==
    /\ Alive
    /\ conn[s].hs = "pending"
    /\ conn' = [conn EXCEPT ![s].hs = IF ok THEN "ok" ELSE "failed"]
    /\ connectionErrors' = IF ok THEN connectionErrors ELSE connectionErrors + 1
    /\ \E fatal \in BOOLEAN :
           server' = IF ok THEN server ELSE handleError(server, "sse", fatal)
    /\ UNCHANGED <<startup, sessions, calls, last, cache, now, apiStats, connectionStats, recency, handler>>

\* The awaited handshake of GET /sse ends; its failure lands in the catch block,
\* whose handleError throws into the promise of the async route handler: the
\* process ends on the unhandled rejection, or the framework takes it up.
Handshake(s, ok) ==
    /\ Alive
    /\ conn[s].hs = "pending"
    /\ conn' = [conn EXCEPT ![s].hs = IF ok THEN "ok" ELSE "failed"]
    /\ sessions' = IF ok THEN sessions ELSE sessions \ {s}
    /\ connectionErrors' = IF ok THEN connectionErrors ELSE connectionErrors + 1
    /\ \E fatal \in BOOLEAN :
           server' = IF ok THEN server ELSE handleError(server, "sse", fatal)
    /\ UNCHANGED <<startup, calls, last, cache, now, apiStats, connectionStats, recency, handler>>

\* The sessions that have an invocation in flight.
Busy == {call.sid : call \in BagToSet(calls)}

\* A close that takes the invocations in flight down with it.
CloseSession_AbortsCalls(s) ==
    /\ Alive
    /\ conn[s].open
    /\ conn' = [conn EXCEPT ![s].open = FALSE, ![s].during = Busy]
    /\ sessions' = sessions \ {s}
    /\ calls' = EmptyBag
    /\ UNCHANGED <<startup, last, cache, now, apiStats, connectionStats, connectionErrors, recency, server, handler>>

\* A close that empties the registry.
CloseSession_DropsAll(s) ==
    /\ Alive
    /\ conn[s].open
    /\ conn' = [conn EXCEPT ![s].open = FALSE, ![s].during = Busy]
    /\ sessions' = {}
    /\ UNCHANGED <<startup, calls, last, cache, now, apiStats, connectionStats, connectionErrors, recency, server, handler>>

\* res.on('close'): the client's connection of session s closes.  `during` is
\* history: the sessions that had an invocation in flight at that moment.
CloseSession(s) ==
    /\ Alive
    /\ conn[s].open
    /\ conn' = [conn EXCEPT ![s].open = FALSE, ![s].during = Busy]
    /\ sessions' = sessions \ {s}
    /\ UNCHANGED <<startup, calls, last, cache, now, apiStats, connectionStats, connectionErrors, recency, server, handler>>

\* A tools/call request reaches the handler of session s: the invocation runs up
\* to its first upstream request, or to its end.
CallTool(s, name, args) ==
    /\ Alive
    /\ s \in sessions
    /\ conn[s].hs = "ok"
    /\ LET r == callTool([IdleCall EXCEPT !.sid = s, !.name = name, !.args = args],
                          name, args, cache, now)
           ended == Left(r.call, cache, r.cache)
       IN  /\ calls' = IF ended.pc = "done" THEN calls ELSE calls (+) SetToBag({ended})
           /\ last' = IF ended.pc = "done" THEN ended ELSE last
           /\ cache' = r.cache
           /\ recency' = Cached(IF r.call.live THEN Touch(recency, r.call.key) ELSE recency, r.cache)
           /\ connectionStats' =
                  Completed([connectionStats EXCEPT !.totalRequests = @ + 1], r.call)
    /\ UNCHANGED <<startup, sessions, conn, now, apiStats, connectionErrors, server, handler>>

\* FigmaHandler.listTools: the names of the tools it returns.
listTools == {"get-file", "list-files"}

\* A tools/list request reaches the handler of session s and is answered.
ListTools(s) ==
    /\ Alive
    /\ s \in sessions
    /\ conn[s].hs = "ok"
    /\ handler' = [handler EXCEPT !.tools = listTools]
    /\ UNCHANGED <<startup, sessions, conn, calls, last, cache, now, apiStats, connectionStats,
                   connectionErrors, recency, server>>

\* The value of a response header, undefined when the response has none (or
\* when there is no response).
Header(resp, name) == IF name \in DOMAIN resp THEN resp[name] ELSE Undefined

\* Number(header) || null: the header as a number, null when it is absent, no
\* number, or zero.  A header value is a string of decimal digits here, kept as
\* [t |-> "string", s |-> digits]; Digits gives the number it denotes.
Digits == [d \in {"0", "1", "7", "42"} |->
              CASE d = "0" -> 0 [] d = "1" -> 1 [] d = "7" -> 7 [] OTHER -> 42]

NumberOrNull(h) ==
    IF h.t = "string" /\ h.s \in DOMAIN Digits /\ Digits[h.s] # 0 THEN Num(Digits[h.s]) ELSE Null

\* resetTime ? Number(new Date(resetTime)) : null, for a header that holds a
\* date: the time of that date, kept by the same digits.
ResetOrNull(h) ==
    IF h.t = "string" /\ h.s # "" /\ h.s \in DOMAIN Digits THEN Num(Digits[h.s]) ELSE Null

\* makeFigmaRequest's rate limit fields after a request has ended with `resp`,
\* and the report of them to the statistics.  Without a response (network
\* error) the fields stay and are reported as they are.
rateLimit(h, resp) ==
    LET remaining == IF resp.kind = "network" THEN h.rateLimitRemaining
                     ELSE NumberOrNull(Header(resp, "remaining"))
        reset == IF resp.kind = "network" THEN h.rateLimitReset
                 ELSE ResetOrNull(Header(resp, "reset"))
    IN  [h EXCEPT !.rateLimitRemaining = remaining, !.rateLimitReset = reset,
                  !.stats = [rateLimitRemaining |-> remaining, rateLimitReset |-> reset],
                  !.headers = IF resp.kind = "network" THEN @
                              ELSE [seen |-> TRUE, remaining |-> Header(resp, "remaining"),
                                    reset |-> Header(resp, "reset")]]

\* The upstream request `tag` of the invocation `call` ends with `resp`:
\* makeFigmaRequest updates the statistics and the handler runs on.
Respond(call, tag, resp) ==
    /\ Alive
    /\ call \in BagToSet(calls)
    /\ tag \in call.pending
    /\ LET o == makeFigmaRequest(resp)
           heard == [call EXCEPT !.failures = IF o.ok THEN @ ELSE @ + 1,
                                 !.fetched = IF o.ok THEN o.data ELSE @,
                                 !.heard = @ \cup {[tag |-> tag, ok |-> o.ok, msg |-> o.msg]}]
           r == Resume(heard, tag, o, cache, now)
           ended == Left(r.call, cache, r.cache)
           rest == calls (-) SetToBag({call})
       IN  /\ calls' = IF ended.pc = "done" THEN rest ELSE rest (+) SetToBag({ended})
           /\ last' = IF ended.pc = "done" THEN ended ELSE last
           /\ cache' = r.cache
           /\ recency' = Cached(IF call.stage \in {"file", "files"} /\ o.ok
                                 THEN Touch(recency, call.key) ELSE recency, r.cache)
           /\ connectionStats' = Completed(connectionStats, r.call)
    /\ apiStats' = updateStats(apiStats, resp)
    /\ handler' = rateLimit(handler, resp)
    /\ UNCHANGED <<startup, sessions, conn, now, connectionErrors, server>>

\* start(): the routes are set up, the listener is asked to bind, and the
\* promise of start() is returned.
Start ==
    /\ Alive
    /\ server.started = "none"
    /\ server' = [server EXCEPT !.httpServer = "binding", !.started = "pending"]
    /\ UNCHANGED <<startup, sessions, conn, calls, last, cache, now, apiStats, connectionStats,
                   connectionErrors, recency, handler>>

\* The callback of app.listen: the server runs, its health timer is set and
\* start() resolves.
Listening ==
    /\ Alive
    /\ server.httpServer = "binding"
    /\ server' = [server EXCEPT !.httpServer = "listening", !.state = "running",
                                !.healthCheckInterval = TRUE, !.timers = @ + 1,
                                !.started = "resolved"]
    /\ UNCHANGED <<startup, sessions, conn, calls, last, cache, now, apiStats, connectionStats,
                   connectionErrors, recency, handler>>

\* httpServer.on('error'): the listener fails to bind.  handleError throws in
\* the listener before reject(error) runs, an uncaught exception.
HttpError ==
    /\ Alive
    /\ server.httpServer = "binding"
    /\ connectionErrors' = connectionErrors + 1
    /\ server' = handleError([server EXCEPT !.state = "error", !.httpServer = "failed"],
                             "listen", TRUE)
    /\ UNCHANGED <<startup, sessions, conn, calls, last, cache, now, apiStats, connectionStats, recency, handler>>

\* A validateToken that lets a token pass when Figma cannot be reached.
validateTokenAnswer_PassesUnreachable(resp) ==
    IF resp.kind = "http"
    THEN <<"Figma token validation failed (HTTP ", ToString(resp.status),
           "): token may be invalid or expired">>
    ELSE <<>>

\* AuthMiddleware.validateToken from the answer of GET /v1/me on: the message
\* of the InvalidFigmaTokenError it throws, <<>> when it returns.
validateTokenAnswer(resp) ==
    IF resp.kind = "network"
    THEN <<"Failed to reach Figma API for token validation: ">> \o resp.text
    ELSE IF resp.kind # "ok"
    THEN <<"Figma token validation failed (HTTP ", ToString(resp.status),
           "): token may be invalid or expired">>
    ELSE <<>>

\* startServer(figmaToken) is called: validateToken throws on an empty token,
\* which startServer logs and rethrows, or sends GET /v1/me and waits.
startServer ==
    /\ startup.pc = "idle"
    /\ startup' = IF startup.token = ""
                  THEN [startup EXCEPT !.pc = "failed", !.error = <<"No Figma token provided">>]
                  ELSE [startup EXCEPT !.pc = "validating"]
    /\ UNCHANGED <<sessions, conn, calls, last, cache, now, apiStats, connectionStats,
                   connectionErrors, recency, server, handler>>

\* GET /v1/me is answered: on an error startServer rethrows it; otherwise the
\* MCPServer is constructed and its start() is called, which asks the listener
\* to bind.
TokenAnswered(resp) ==
    /\ startup.pc = "validating"
    /\ LET error == validateTokenAnswer(resp) IN
       IF error # <<>>
       THEN /\ startup' = [startup EXCEPT !.pc = "failed", !.answer = resp.kind, !.error = error]
            /\ UNCHANGED server
       ELSE /\ startup' = [startup EXCEPT !.pc = "validated", !.answer = resp.kind]
            /\ server' = [NewServer EXCEPT !.httpServer = "binding", !.started = "pending"]
    /\ UNCHANGED <<sessions, conn, calls, last, cache, now, apiStats, connectionStats,
                   connectionErrors, recency, handler>>

\* A stop() that forgets the timer without cancelling it.
clearHealthCheck_KeepsTimer(srv) == [srv EXCEPT !.healthCheckInterval = FALSE]

\* stop(): if (this.healthCheckInterval) { clearInterval(...); ... = null }.
clearHealthCheck(srv) ==
    [srv EXCEPT !.healthCheckInterval = FALSE,
                !.timers = IF srv.healthCheckInterval THEN @ - 1 ELSE @]

\* A health rule that still passes at the threshold.
isHealthy_AtThreshold(state, errors) == state = "running" /\ errors <= 5

\* getHealthStatus.
isHealthy(state, errors) == state = "running" /\ errors < 5

\* A snapshot whose health goes by the state alone.
getHealthStatus_StateOnly(n) ==
    [n |-> n, status |-> IF server.state = "running" THEN 200 ELSE 503,
     isHealthy |-> server.state = "running",
     state |-> server.state, errors |-> connectionErrors,
     activeSessions |-> Cardinality(sessions)]

getHealthStatus(n) ==
    [n |-> n, status |-> IF isHealthy(server.state, connectionErrors) THEN 200 ELSE 503,
     isHealthy |-> isHealthy(server.state, connectionErrors),
     state |-> server.state, errors |-> connectionErrors,
     activeSessions |-> Cardinality(sessions)]

\* The callback of setInterval in startHealthCheck: a timer that was set and
\* not cleared fires; the snapshot is taken and emitted as healthUpdate.
HealthTick ==
    /\ Alive
    /\ server.timers > 0
    /\ server.ticks < MaxTicks
    /\ server' = [server EXCEPT !.ticks = @ + 1, !.published = getHealthStatus(server.ticks + 1)]
    /\ UNCHANGED <<startup, sessions, conn, calls, last, cache, now, apiStats, connectionStats,
                   connectionErrors, recency, handler>>

\* GET /health is answered.
Health ==
    /\ Alive
    /\ server.httpServer = "listening"
    /\ server.health.n < MaxProbes
    /\ server' = [server EXCEPT !.health = getHealthStatus(server.health.n + 1)]
    /\ UNCHANGED <<startup, sessions, conn, calls, last, cache, now, apiStats, connectionStats,
                   connectionErrors, recency, handler>>

\* What transport.handlePostMessage does with a message: it takes it, or it
\* throws before or after it has begun the answer.
PostOutcomes == {"accepted", "threw", "threwAfterHeaders"}

\* A route that hands a message for an unregistered session to some registered one.
postMessage_AnySession(n, id, reg, out) ==
    IF id = "" THEN
        [n |-> n, sessionId |-> id, status |-> 400, error |-> "Missing sessionId query parameter",
         to |-> ""]
    ELSE IF id \notin reg /\ reg = {} THEN
        [n |-> n, sessionId |-> id, status |-> 404, error |-> "Session '" \o id \o "' not found",
         to |-> ""]
    ELSE IF out = "threw" THEN
        [n |-> n, sessionId |-> id, status |-> 500, error |-> "Internal server error",
         to |-> IF id \in reg THEN id ELSE CHOOSE r \in reg : TRUE]
    ELSE [n |-> n, sessionId |-> id, status |-> 202, error |-> "",
          to |-> IF id \in reg THEN id ELSE CHOOSE r \in reg : TRUE]

\* The route of POST /messages?sessionId=id, as the answer it gives and the
\* transport the message is handed to.
postMessage(n, id, reg, out) ==
    IF id = "" THEN
        [n |-> n, sessionId |-> id, status |-> 400, error |-> "Missing sessionId query parameter",
         to |-> ""]
    ELSE IF id \notin reg THEN
        [n |-> n, sessionId |-> id, status |-> 404, error |-> "Session '" \o id \o "' not found",
         to |-> ""]
    ELSE IF out = "threw" THEN
        [n |-> n, sessionId |-> id, status |-> 500, error |-> "Internal server error", to |-> id]
    ELSE [n |-> n, sessionId |-> id, status |-> 202, error |-> "", to |-> id]

\* POST /messages with session id `id` is answered.
PostMessage(id, out) ==
    /\ Alive
    /\ server.httpServer = "listening"
    /\ server.post.n < MaxPosts
    /\ server' = [server EXCEPT !.post = postMessage(server.post.n + 1, id, sessions, out)]
    /\ UNCHANGED <<startup, sessions, conn, calls, last, cache, now, apiStats, connectionStats,
                   connectionErrors, recency, handler>>

\* The sessions Map in iteration order.
Registered == SelectSeq(server.order, LAMBDA s : s \in sessions)

\* A loop that leaves at the first close that throws.
stopLoop_LeaveOnFailure(srv, reg) ==
    LET rest == SelectSeq(reg, LAMBDA s : s \notin srv.attempted)
    IN  IF rest # <<>> /\ srv.closeFailed = {}
        THEN [srv |-> [srv EXCEPT !.stop = "closing", !.current = Head(rest),
                                  !.attempted = @ \cup {Head(rest)}],
              sessions |-> Range(reg)]
        ELSE [srv |-> [srv EXCEPT !.stop = "http", !.current = "",
                                  !.httpServer = IF @ = "null" THEN @ ELSE "closing"],
              sessions |-> {}]

\* The for..of loop of stop() moves on: close is called on the next session of
\* the Map that the iteration has not visited, or, at the end of the Map, the
\* Map is cleared and the listener is asked to close.
stopLoop(srv, reg) ==
    LET rest == SelectSeq(reg, LAMBDA s : s \notin srv.attempted)
    IN  IF rest # <<>>
        THEN [srv |-> [srv EXCEPT !.stop = "closing", !.current = Head(rest),
                                  !.attempted = @ \cup {Head(rest)}],
              sessions |-> Range(reg)]
        ELSE [srv |-> [srv EXCEPT !.stop = "http", !.current = "",
                                  !.httpServer = IF @ = "null" THEN @ ELSE "closing"],
              sessions |-> {}]

\* stop() is called (the process calls it on SIGINT, once start() has resolved).
Stop ==
    /\ Alive
    /\ server.started = "resolved"
    /\ server.stop = "idle"
    /\ LET r == stopLoop([clearHealthCheck(server) EXCEPT !.state = "stopping",
                                        !.during = sessions], Registered)
       IN  /\ server' = r.srv
           /\ sessions' = r.sessions
    /\ UNCHANGED <<startup, conn, calls, last, cache, now, apiStats, connectionStats, connectionErrors,
                   recency, handler>>

\* The awaited transport.close() of stop() settles; a rejection is logged.
StopClosed(ok) ==
    /\ Alive
    /\ server.stop = "closing"
    /\ LET r == stopLoop([server EXCEPT !.closeFailed = IF ok THEN @ ELSE @ \cup {server.current}],
                         Registered)
       IN  /\ server' = r.srv
           /\ sessions' = r.sessions
    /\ UNCHANGED <<startup, conn, calls, last, cache, now, apiStats, connectionStats, connectionErrors,
                   recency, handler>>

\* A close of the listener that does not wait for the connections to end.
HttpClosed_NoWait ==
    /\ Alive
    /\ server.stop = "http"
    /\ server' = [server EXCEPT !.httpServer = "null", !.state = "stopped", !.stop = "done"]
    /\ UNCHANGED <<startup, sessions, conn, calls, last, cache, now, apiStats, connectionStats,
                   connectionErrors, recency, handler>>

\* The callback of httpServer.close: every connection has ended; stop() runs to
\* its end.
HttpClosed ==
    /\ Alive
    /\ server.stop = "http"
    /\ \A s \in ConnIds : ~conn[s].open
    /\ server' = [server EXCEPT !.httpServer = "null", !.state = "stopped", !.stop = "done"]
    /\ UNCHANGED <<startup, sessions, conn, calls, last, cache, now, apiStats, connectionStats,
                   connectionErrors, recency, handler>>

\* An entry of makeFigmaRequest that goes to the network without a token.
requestEntry_NoTokenCheck(endpoint, token) ==
    IF endpoint = ""
    THEN [fetch |-> FALSE, msg |-> <<"Empty endpoint provided to Figma API request">>]
    ELSE [fetch |-> TRUE, msg |-> <<>>]

\* makeFigmaRequest up to its fetch: the two checks that throw before it.
requestEntry(endpoint, token) ==
    IF endpoint = ""
    THEN [fetch |-> FALSE, msg |-> <<"Empty endpoint provided to Figma API request">>]
    ELSE IF token = ""
    THEN [fetch |-> FALSE,
          msg |-> <<"No Figma access token provided. Please set FIGMA_ACCESS_TOKEN environment variable.">>]
    ELSE [fetch |-> TRUE, msg |-> <<>>]

\* makeFigmaRequest(endpoint) is called: it throws at once, through its catch,
\* which reports a failed call, or it starts its network call.
Request(endpoint) ==
    /\ handler.request.pc # "fetch"
    /\ LET e == requestEntry(endpoint, handler.figmaToken)
       IN  /\ handler' =
                  [handler EXCEPT
                      !.request = [pc |-> IF e.fetch THEN "fetch" ELSE "done",
                                   endpoint |-> endpoint,
                                   fetches |-> IF e.fetch THEN 1 ELSE 0,
                                   error |-> e.msg],
                      !.stats = IF e.fetch THEN @
                                ELSE [rateLimitRemaining |-> handler.rateLimitRemaining,
                                      rateLimitReset |-> handler.rateLimitReset]]
           /\ apiStats' = IF e.fetch THEN apiStats
                          ELSE [apiStats EXCEPT !.totalApiCalls = @ + 1, !.failedApiCalls = @ + 1]
    /\ UNCHANGED <<startup, sessions, conn, calls, last, cache, now, connectionStats, connectionErrors,
                   recency, server>>

\* The network call of that request ends with `resp`.
RequestEnds(resp) ==
    /\ handler.request.pc = "fetch"
    /\ handler' = [rateLimit(handler, resp) EXCEPT
                      !.request.pc = "done", !.request.error = makeFigmaRequest(resp).msg]
    /\ apiStats' = updateStats(apiStats, resp)
    /\ UNCHANGED <<startup, sessions, conn, calls, last, cache, now, connectionStats, connectionErrors,
                   recency, server>>

\* Time passes.
Tick ==
    /\ now < MaxTime
    /\ now' = now + 1
    /\ UNCHANGED <<startup, sessions, conn, calls, last, cache, apiStats, connectionStats, connectionErrors, recency, server, handler>>

(***************************************************************************)
(* The cache specification: get-file and list-files on one session, with   *)
(* time passing and up to MaxInflight invocations in flight.               *)
(***************************************************************************)
\* The environment's bound on tool invocations: `total` in all, MaxInflight at a time.
Admit(total) ==
    /\ connectionStats.totalRequests < total
    /\ BagCardinality(calls) < MaxInflight

CacheRequests ==
    {[name |-> "get-file", args |-> [fileKey |-> Str("K1")]],
     [name |-> "list-files", args |-> [projectId |-> Str("P1")]]}

CacheResponses ==
    {OkResp(ObjBody("F1")), OkResp(ObjBody("F2")), OkResp(NullBody),
     HttpErr(404, <<"Not found">>)}

Next ==
    \/ Start
    \/ Listening
    \/ \E s \in {"s1"} : Connect(s)
    \/ \E s \in {"s1"} : Handshake(s, TRUE)
    \/ \E rq \in CacheRequests : Admit(MaxCalls) /\ CallTool("s1", rq.name, rq.args)
    \/ \E call \in BagToSet(calls), resp \in CacheResponses : Respond(call, <<0, 0>>, resp)
    \/ Tick

Spec == Init /\ [][Next]_vars

(***************************************************************************)
(* The eviction specification: more keys than the cache holds.             *)
(***************************************************************************)
LruRequests ==
    {[name |-> "get-file", args |-> [fileKey |-> Str(k)]] : k \in {"K1", "K2", "K3"}}
    \cup {[name |-> "list-files", args |-> [projectId |-> Str("P1")]]}

LruResponses == {OkResp(ObjBody("F1")), HttpErr(404, <<"Not found">>)}

NextLru ==
    \/ Start
    \/ Listening
    \/ \E s \in {"s1"} : Connect(s)
    \/ \E s \in {"s1"} : Handshake(s, TRUE)
    \/ \E rq \in LruRequests : Admit(LruCalls) /\ CallTool("s1", rq.name, rq.args)
    \/ \E call \in BagToSet(calls), resp \in LruResponses : Respond(call, <<0, 0>>, resp)
    \/ Tick

SpecLru == Init /\ [][NextLru]_vars

(***************************************************************************)
(* The batch specification: one update_variables or delete_variables       *)
(* invocation, its list request and its per-item requests, answered in any *)
(* order.                                                                  *)
(***************************************************************************)
\* The sequences over S of length at most n.
SeqsUpTo(S, n) == UNION {[1..m -> S] : m \in 0..n}

\* The first invocation of the behaviour.
First == connectionStats.totalRequests = 0

BatchRequests ==
    {[name |-> "delete_variables",
      args |-> [fileKey |-> Str("K1"), variableIds |-> Arr(ids), softDelete |-> soft]] :
        ids \in SeqsUpTo({Str("A"), Str("Z")}, MaxBatch), soft \in {Undefined, Bool(TRUE)}}
    \cup {[name |-> "update_variables", args |-> [fileKey |-> Str("K1"), updates |-> Arr(ids)]] :
        ids \in SeqsUpTo({Str("A"), Str("B"), Str("Z")}, MaxBatch)}

BatchTags == {<<i, 0>> : i \in 0..(MaxBatch + 1)}

BatchResponses(call) ==
    IF call.stage = "list"
    THEN {OkResp(ArrBody(<<Var("A", "COLOR", "")>>)),
          OkResp(ArrBody(<<Var("B", "COLOR", ""), Var("A", "COLOR", "")>>)),
          OkResp(ObjBody("meta")), HttpErr(404, <<"Not found">>)}
    ELSE {OkResp(ObjBody("ok")), HttpErr(500, <<"boom">>), NetErr(<<"fetch failed">>)}

NextBatch ==
    \/ Start
    \/ Listening
    \/ \E s \in {"s1"} : Connect(s)
    \/ \E s \in {"s1"} : Handshake(s, TRUE)
    \/ \E rq \in BatchRequests : First /\ CallTool("s1", rq.name, rq.args)
    \/ \E call \in BagToSet(calls), tag \in BatchTags :
            \E resp \in BatchResponses(call) : Respond(call, tag, resp)

SpecBatch == Init /\ [][NextBatch]_vars

(***************************************************************************)
(* The batch specification with a warm cache: the file of the batch may be *)
(* fetched and cached before or while the batch runs.                      *)
(***************************************************************************)
WarmRequests ==
    {[name |-> "get-file", args |-> [fileKey |-> Str("K1")]]}
    \cup {rq \in BatchRequests : Len(rq.args[BatchWords(rq.name).field].items) <= WarmBatch}

NextWarm ==
    \/ Start
    \/ Listening
    \/ \E s \in {"s1"} : Connect(s)
    \/ \E s \in {"s1"} : Handshake(s, TRUE)
    \/ \E rq \in WarmRequests : Admit(WarmCalls) /\ CallTool("s1", rq.name, rq.args)
    \/ \E call \in BagToSet(calls), tag \in BatchTags :
            \E resp \in BatchResponses(call) : Respond(call, tag, resp)

SpecWarm == Init /\ [][NextWarm]_vars

(***************************************************************************)
(* Claims about batches.                                                   *)
(***************************************************************************)
\* The outcome line of item i of an ended batch, from the list the invocation
\* fetched and from the outcome of the item's own request alone.
ExpectedLine(call, i) ==
    LET w == BatchWords(call.name)
        at == FindVar(call.list.vars, call.items[i])
        own == {h \in call.heard : h.tag = <<i, 0>>}
    IN  IF at = 0 THEN {<<"Variable ", call.items[i], " not found">>}
        ELSE {IF h.ok
              THEN <<w.done, call.list.vars[at].name>>
                   \o (IF call.soft THEN <<" (soft delete)">> ELSE <<>>)
              ELSE <<w.fail, call.list.vars[at].name, ": ">> \o h.msg : h \in own}

\* An ended batch invocation whose list request gave a list.
BatchDone(call) ==
    /\ call.pc = "done" /\ call.name \in {"update_variables", "delete_variables"}
    /\ call.list.t = "array"

\* C10: delete_variables and update_variables return exactly one outcome line
\* per input item, in input order: an item absent from the fetched list is
\* reported as not found (and gets no request), a failure of one item's request
\* is captured in that item's line, and every line is decided by its own item's
\* lookup and request alone; the result is no error result.
C10_OneLinePerItem ==
    BatchDone(last) =>
        /\ last.result.kind = "result" /\ ~last.result.isError
        /\ Len(last.lines) = Len(last.items)
        /\ \A i \in 1..Len(last.items) :
              /\ {last.lines[i]} = ExpectedLine(last, i)
              /\ (FindVar(last.list.vars, last.items[i]) = 0
                    <=> ~\E h \in last.heard : h.tag = <<i, 0>>)
        /\ last.result.text = <<BatchWords(last.name).head>> \o Listed(last.lines)

\* C10 witness: three ids, the second absent from the list, the first failing
\* and the third succeeding.
C10_Witness ==
    /\ BatchDone(last) /\ last.name = "delete_variables"
    /\ last.items = <<"A", "Z", "A">>
    /\ last.lines = << <<"Failed to delete ", "name-A", ": ", "fetch failed">>,
                       <<"Variable ", "Z", " not found">>,
                       <<"Deleted ", "name-A">> >>

(***************************************************************************)
(* The graph specification: one validate_references invocation answered    *)
(* with a list of variables drawn from the entries below, in either order. *)
(* Z is the identifier no variable has.                                    *)
(***************************************************************************)
Ref(id, targetId) == Var(id, "VARIABLE_REFERENCE", targetId)

GraphEntries ==
    <<Ref("A", "A"), Ref("A", "B"), Ref("A", "C"), Ref("A", "Z"),
      Ref("B", "C"), Ref("B", "D"), Var("B", "COLOR", ""),
      Ref("C", "A"), Ref("C", "D"), Ref("C", ""),
      Var("D", "COLOR", "")>>

Reverse(seq) == [i \in 1..Len(seq) |-> seq[Len(seq) + 1 - i]]

\* The entries at the places in `pick`, in the order of GraphEntries.
RECURSIVE Picked(_, _)
Picked(pick, i) ==
    IF i > Len(GraphEntries) THEN <<>>
    ELSE (IF i \in pick THEN <<GraphEntries[i]>> ELSE <<>>) \o Picked(pick, i + 1)

GraphLists ==
    UNION {{Picked(pick, 1), Reverse(Picked(pick, 1))} : pick \in SUBSET (1..Len(GraphEntries))}

GraphResponses ==
    {OkResp(ArrBody(list)) : list \in GraphLists}
    \cup {OkResp(NullBody), HttpErr(403, <<"Forbidden">>)}

GraphRequests ==
    {[name |-> "validate_references", args |-> [fileKey |-> Str("K1")]]}
    \cup {[name |-> "validate_references",
           args |-> [fileKey |-> Str("K1"), variableIds |-> Arr(ids)]] :
            ids \in {<<>>, <<Str("A")>>, <<Str("Z")>>, <<Str("D"), Str("B")>>,
                     <<Str("Z"), Str("A"), Str("B"), Str("C")>>}}

NextGraph ==
    \/ Start
    \/ Listening
    \/ \E s \in {"s1"} : Connect(s)
    \/ \E s \in {"s1"} : Handshake(s, TRUE)
    \/ \E rq \in GraphRequests : First /\ CallTool("s1", rq.name, rq.args)
    \/ \E call \in BagToSet(calls), resp \in GraphResponses : Respond(call, <<0, 0>>, resp)

SpecGraph == Init /\ [][NextGraph]_vars

(***************************************************************************)
(* The graph specification over variables that carry their reference in    *)
(* the default mode, in another mode, in both or in none.                  *)
(***************************************************************************)
RefIn(id, targetId, otherId) == [Ref(id, targetId) EXCEPT !.other = otherId]

ModeEntries ==
    <<Ref("A", "B"), RefIn("A", "", "C"), RefIn("B", "C", "D"), RefIn("C", "", "A"),
      Ref("C", ""), Var("D", "COLOR", "")>>

RECURSIVE PickedOf(_, _, _)
PickedOf(entries, pick, i) ==
    IF i > Len(entries) THEN <<>>
    ELSE (IF i \in pick THEN <<entries[i]>> ELSE <<>>) \o PickedOf(entries, pick, i + 1)

ModeResponses ==
    {OkResp(ArrBody(list)) :
        list \in UNION {{PickedOf(ModeEntries, pick, 1), Reverse(PickedOf(ModeEntries, pick, 1))} :
                           pick \in SUBSET (1..Len(ModeEntries))}}
    \cup {OkResp(NullBody), HttpErr(403, <<"Forbidden">>)}

NextModes ==
    \/ Start
    \/ Listening
    \/ \E s \in {"s1"} : Connect(s)
    \/ \E s \in {"s1"} : Handshake(s, TRUE)
    \/ \E rq \in GraphRequests : First /\ CallTool("s1", rq.name, rq.args)
    \/ \E call \in BagToSet(calls), resp \in ModeResponses : Respond(call, <<0, 0>>, resp)

SpecModes == Init /\ [][NextModes]_vars

(***************************************************************************)
(* create_reference over the same lists of variables.                      *)
(***************************************************************************)
ReferenceRequests ==
    {[name |-> "create_reference",
      args |-> [fileKey |-> Str("K1"), sourceId |-> Str(src), targetId |-> Str(tgt)]] :
        src \in {"A", "B", "D"}, tgt \in {"A", "B", "C", "Z"}}

\* The list of variables answers the lookup; the write is answered without one.
ReferenceResponses(call) ==
    IF call.stage = "lookup" THEN GraphResponses
    ELSE {OkResp(NullBody), HttpErr(403, <<"Forbidden">>)}

NextReference ==
    \/ Start
    \/ Listening
    \/ \E s \in {"s1"} : Connect(s)
    \/ \E s \in {"s1"} : Handshake(s, TRUE)
    \/ \E rq \in ReferenceRequests : First /\ CallTool("s1", rq.name, rq.args)
    \/ \E call \in BagToSet(calls) :
            \E resp \in ReferenceResponses(call) : Respond(call, <<0, 0>>, resp)

SpecReference == Init /\ [][NextReference]_vars

(***************************************************************************)
(* Claims about validate_references.                                       *)
(***************************************************************************)
Ids == {"A", "B", "C", "D", "Z"}

\* The references of a list of variables, as pairs.
Edges(variables) ==
    {<<variables[i].id, variables[i].ref>> : i \in
        {j \in 1..Len(variables) :
            variables[j].resolvedType = "VARIABLE_REFERENCE" /\ variables[j].ref # ""}}

\* The identifiers reached from id by one or more references.
RECURSIVE ReachedWithin(_, _, _)
ReachedWithin(E, from, n) ==
    IF n = 0 THEN from
    ELSE ReachedWithin(E, from \cup {e[2] : e \in {f \in E : f[1] \in from}}, n - 1)
Reached(E, id) == ReachedWithin(E, {e[2] : e \in {f \in E : f[1] = id}}, Cardinality(Ids))

\* A cycle is reachable from id: id reaches itself or an identifier that does.
CycleReachable(E, id) ==
    \/ id \in Reached(E, id)
    \/ \E x \in Reached(E, id) : x \in Reached(E, x)

\* An ended validate_references invocation that got a list of variables.
Validated(call) ==
    call.pc = "done" /\ call.name = "validate_references" /\ call.list.t = "array"

Present(variables) == {variables[i].id : i \in 1..Len(variables)}
Checked(call) ==
    IF call.given THEN call.items ELSE buildDependencyGraph(call.list.vars).keys
Circular(id) == Problem(id, <<"Circular reference detected">>)
Dangling(id, targetId) == Problem(id, <<"Referenced variable ", targetId, " not found">>)
Missing(id) == Problem(id, <<"Variable not found">>)
IsList(call, edges, plain) ==
    /\ Edges(call.list.vars) = edges
    /\ Present(call.list.vars) = {e[1] : e \in edges} \cup plain

\* C6: detectCycles answers true exactly when a cycle is reachable from the
\* start, for every start and every graph built; validate_references flags a
\* checked variable as circular exactly then, so all of A, B, C in the
\* three-cycle, none in the diamond, and A in the self-reference.
C6_CycleDetection ==
    Validated(last) =>
        LET variables == last.list.vars
            graph == buildDependencyGraph(variables)
            checked == Range(Checked(last)) \cap Present(variables)
        IN  /\ \A start \in Ids :
                  detectCycles(graph, start, {}, {}).r = CycleReachable(Edges(variables), start)
            /\ \A id \in checked :
                  Circular(id) \in Range(last.lines) <=> CycleReachable(Edges(variables), id)
            /\ \A id \in Ids \ checked : Circular(id) \notin Range(last.lines)
            /\ IsList(last, {<<"A", "B">>, <<"B", "C">>, <<"C", "A">>}, {})
                  => \A id \in {"A", "B", "C"} \cap checked : Circular(id) \in Range(last.lines)
            /\ IsList(last, {<<"A", "B">>, <<"A", "C">>, <<"B", "D">>, <<"C", "D">>}, {"D"})
                  => \A line \in Range(last.lines) : \E id \in Ids : line = Missing(id)
            /\ IsList(last, {<<"A", "A">>}, {}) /\ "A" \in checked
                  => Circular("A") \in Range(last.lines)

\* C6 witness: the three-cycle checked with no identifiers given, all three
\* flagged.
C6_Witness ==
    /\ Validated(last) /\ ~last.given
    /\ IsList(last, {<<"A", "B">>, <<"B", "C">>, <<"C", "A">>}, {})
    /\ Range(last.lines) = {Circular("A"), Circular("B"), Circular("C")}

\* C7: for every checked variable, each reference to an identifier that no
\* variable has yields a dangling-reference error for it, no other dangling
\* error is reported, and a variable whose references all lead nowhere is not
\* flagged as circular; for {A->Z} the only problem of A is the dangling Z.
C7_DanglingNotCircular ==
    Validated(last) =>
        LET variables == last.list.vars
            E == Edges(variables)
            checked == Range(Checked(last)) \cap Present(variables)
            dangling == {e \in E : e[1] \in checked /\ e[2] \notin Present(variables)}
        IN  /\ \A e \in E : Dangling(e[1], e[2]) \in Range(last.lines) <=> e \in dangling
            /\ \A id \in checked :
                  (\A e \in E : e[1] = id => e[2] \notin Present(variables))
                      => Circular(id) \notin Range(last.lines)
            /\ IsList(last, {<<"A", "Z">>}, {}) /\ "A" \in checked
                  => SelectSeq(last.lines, LAMBDA line : line[1] = "A") = <<Dangling("A", "Z")>>

\* C7 witness: {A->Z} checked, A flagged as dangling and nothing else.
C7_Witness ==
    /\ Validated(last) /\ IsList(last, {<<"A", "Z">>}, {})
    /\ last.lines = <<Dangling("A", "Z")>>

\* The problems of one identifier, from the list of variables alone.
ExpectedProblems(variables, id) ==
    IF id \notin Present(variables) THEN <<Missing(id)>>
    ELSE LET refs == SelectSeq(variables, LAMBDA v :
                        /\ v.id = id /\ v.resolvedType = "VARIABLE_REFERENCE"
                        /\ v.ref \notin Present(variables) \cup {""})
         IN  (IF CycleReachable(Edges(variables), id) THEN <<Circular(id)>> ELSE <<>>)
             \o [i \in 1..Len(refs) |-> Dangling(id, refs[i].ref)]

RECURSIVE ExpectedAll(_, _)
ExpectedAll(variables, ids) ==
    IF ids = <<>> THEN <<>>
    ELSE ExpectedProblems(variables, Head(ids)) \o ExpectedAll(variables, Tail(ids))

RECURSIVE SumOver(_, _, _)
SumOver(variables, ids, done) ==
    IF ids = done THEN 0
    ELSE LET id == CHOOSE x \in ids \ done : TRUE
         IN  Len(ExpectedProblems(variables, id)) + SumOver(variables, ids, done \cup {id})

\* C8: validate_references reports, for the identifiers given in their order,
\* and for all variables of the file when none are given, every problem of every
\* identifier: not found, circular when a cycle is reachable, one dangling error
\* per reference to an absent target; the result lists them all, and it says
\* that all references are valid exactly when there is no problem.
C8_CompleteProblemList ==
    Validated(last) =>
        LET variables == last.list.vars
            all == Present(variables)
        IN  /\ last.given => last.lines = ExpectedAll(variables, last.items)
            /\ ~last.given =>
                  /\ Range(last.lines) = UNION {Range(ExpectedProblems(variables, id)) : id \in all}
                  /\ Len(last.lines) = SumOver(variables, all, {})
            /\ last.result.kind = "result" /\ ~last.result.isError
            /\ last.lines # <<>> =>
                  last.result.text = <<"Validation issues found:">> \o Listed(last.lines)
            /\ last.lines = <<>> <=> last.result.text = <<"All references are valid">>
            /\ last.lines = <<>> <=>
                  \A id \in Range(Checked(last)) \cup (IF last.given THEN {} ELSE all) :
                      ExpectedProblems(variables, id) = <<>>

\* C8 witness: four identifiers given, the first absent, the second circular
\* and dangling, the others circular; all problems listed in order.
C8_Witness ==
    /\ Validated(last) /\ last.items = <<"Z", "A", "B", "C">>
    /\ last.lines = <<Missing("Z"), Circular("A"), Dangling("A", "Z"),
                      Circular("B"), Circular("C")>>

(***************************************************************************)
(* The dispatch specification: one invocation of any tool name, with       *)
(* arguments the schema accepts or rejects, its requests answered in any   *)
(* order with any outcome.                                                 *)
(***************************************************************************)
Catalogue ==
    {"create_reference", "validate_references", "create_theme", "delete_variables",
     "update_variables", "create_variables", "get-file", "list-files"}

\* Names callTool has no case for; the first three are advertised in FIGMA_TOOLS.
UnknownNames == {"search_files", "get_file_details", "list_components", "get_file", ""}

FileKeys == {Str("K1"), Str("a/b"), NotAString}

DispatchRequests ==
    {[name |-> n, args |-> [fileKey |-> Str("K1")]] : n \in Catalogue \cup UnknownNames}
    \cup {[name |-> "get-file", args |-> [fileKey |-> k]] : k \in FileKeys \cup {Str("..")}}
    \cup {[name |-> "list-files", args |-> [projectId |-> k]] : k \in {Str("P1"), Str("")}}
    \cup {[name |-> n, args |-> [fileKey |-> k, variableIds |-> Arr(ids)]] :
            n \in {"delete_variables", "validate_references"}, k \in FileKeys,
            ids \in {<<Str("A"), Str("Z")>>, <<Str("A"), Str("a\\b")>>}}
    \cup {[name |-> "update_variables", args |-> [fileKey |-> Str("K1"), updates |-> Arr(ids)]] :
            ids \in {<<Str("A"), Str("B")>>, <<NotAString>>}}
    \cup {[name |-> "create_variables", args |-> [fileKey |-> k, variables |-> Arr(vs)]] :
            k \in FileKeys,
            vs \in {<<NewVariable("primary", "COLOR"), NewVariable("gap", "FLOAT")>>,
                    <<NewVariable("primary", "BOOLEAN")>>}}
    \cup {[name |-> "create_reference",
           args |-> [fileKey |-> Str("K1"), sourceId |-> Str("A"), targetId |-> t, expression |-> e]] :
            t \in {Str("B"), Str("Z"), Str("")}, e \in {Undefined, Str("x * 2")}}
    \cup {[name |-> "create_theme", args |-> [fileKey |-> k, name |-> Str("brand"), modes |-> Arr(ms)]] :
            k \in FileKeys,
            ms \in {<<>>, <<Mode("light", <<Str("A"), Str("B")>>), Mode("dark", <<>>)>>,
                    <<Mode("light", <<Str("a\nb")>>)>>}}

DispatchTags == {<<m, v>> : m \in 0..2, v \in 0..2}

DispatchResponses ==
    {OkResp(ObjBody("F1")), OkResp(NullBody),
     OkResp(ArrBody(<<Var("A", "COLOR", ""), Var("B", "COLOR", "")>>)),
     HttpErr(404, <<"Not found">>), HttpErr(403, <<"Forbidden">>), HttpErr(500, <<"boom">>),
     NetErr(<<"fetch failed">>), BadJson(<<"Unexpected token <">>)}

NextDispatch ==
    \/ Start
    \/ Listening
    \/ \E s \in {"s1"} : Connect(s)
    \/ \E s \in {"s1"} : Handshake(s, TRUE)
    \/ \E rq \in DispatchRequests : First /\ CallTool("s1", rq.name, rq.args)
    \/ \E call \in BagToSet(calls), tag \in DispatchTags :
            \E resp \in DispatchResponses : Respond(call, tag, resp)

SpecDispatch == Init /\ [][NextDispatch]_vars

(***************************************************************************)
(* The message specification: one invocation whose upstream failures carry *)
(* digits in their text.                                                   *)
(***************************************************************************)
TextRequests ==
    {[name |-> "get-file", args |-> [fileKey |-> Str("K1")]],
     [name |-> "list-files", args |-> [projectId |-> Str("P1")]],
     [name |-> "validate_references", args |-> [fileKey |-> Str("K1")]],
     [name |-> "delete_variables", args |-> [fileKey |-> Str("K1"), variableIds |-> Arr(<<Str("A")>>)]],
     [name |-> "create_reference",
      args |-> [fileKey |-> Str("K1"), sourceId |-> Str("A"), targetId |-> Str("B")]]}

TextResponses ==
    {OkResp(ObjBody("F1")),
     OkResp(ArrBody(<<Var("A", "COLOR", ""), Var("B", "COLOR", "")>>)),
     HttpErr(404, <<"Not found">>), HttpErr(403, <<"Forbidden">>),
     HttpErr(500, <<"Upstream timed out after ", "404", " ms">>),
     HttpErr(403, <<"Forbidden, request ", "404">>),
     HttpErr(429, <<"Rate limit exceeded, retry in ", "403", " s">>),
     NetErr(<<"connect ECONNREFUSED 10.0.0.", "404">>)}

NextTexts ==
    \/ Start
    \/ Listening
    \/ \E s \in {"s1", "s2"} : Connect(s)
    \/ \E s \in {"s1", "s2"}, ok \in BOOLEAN : Handshake(s, ok)
    \/ \E rq \in TextRequests : First /\ CallTool("s1", rq.name, rq.args)
    \/ \E call \in BagToSet(calls), tag \in {<<0, 0>>, <<1, 0>>} :
            \E resp \in TextResponses : Respond(call, tag, resp)

SpecTexts == Init /\ [][NextTexts]_vars

\* The dispatch specification with the tools/list request.
NextTools ==
    \/ Start
    \/ Listening
    \/ \E s \in {"s1"} : Connect(s)
    \/ \E s \in {"s1"} : Handshake(s, TRUE)
    \/ \E s \in {"s1"} : ListTools(s)
    \/ \E rq \in DispatchRequests : First /\ CallTool("s1", rq.name, rq.args)
    \/ \E call \in BagToSet(calls), tag \in DispatchTags :
            \E resp \in DispatchResponses : Respond(call, tag, resp)

SpecTools == Init /\ [][NextTools]_vars

(***************************************************************************)
(* The unknown-name specification: invocations of names callTool has no    *)
(* case for, among get-file invocations that fill the cache and count in   *)
(* the statistics.                                                         *)
(***************************************************************************)
UnknownRequests ==
    {[name |-> n, args |-> a] :
        n \in UnknownNames \cup {"get-file"},
        a \in {[fileKey |-> Str("K1")], [fileKey |-> Str("a/b")], [query |-> Str("logo")]}}

UnknownResponses == {OkResp(ObjBody("F1")), HttpErr(500, <<"boom">>)}

NextUnknown ==
    \/ Start
    \/ Listening
    \/ \E s \in {"s1"} : Connect(s)
    \/ \E s \in {"s1"} : Handshake(s, TRUE)
    \/ \E rq \in UnknownRequests : Admit(MaxCalls) /\ CallTool("s1", rq.name, rq.args)
    \/ \E call \in BagToSet(calls), resp \in UnknownResponses : Respond(call, <<0, 0>>, resp)

SpecUnknown == Init /\ [][NextUnknown]_vars

(***************************************************************************)
(* The session specification: two clients that connect, call tools and     *)
(* disconnect in any order.                                                *)
(***************************************************************************)
SessionRequests ==
    {[name |-> "get-file", args |-> [fileKey |-> Str("K1")]],
     [name |-> "delete_variables", args |-> [fileKey |-> Str("K1"), variableIds |-> Arr(<<Str("A")>>)]]}

SessionResponses ==
    {OkResp(ObjBody("F1")), OkResp(ArrBody(<<Var("A", "COLOR", "")>>)), HttpErr(500, <<"boom">>)}

NextSessions ==
    \/ Start
    \/ Listening
    \/ \E s \in SessionIds : Connect(s)
    \/ \E s \in SessionIds, ok \in BOOLEAN : Handshake(s, ok)
    \/ \E s \in SessionIds : CloseSession(s)
    \/ \E s \in SessionIds, rq \in SessionRequests : Admit(SessionCalls) /\ CallTool(s, rq.name, rq.args)
    \/ \E call \in BagToSet(calls), tag \in {<<0, 0>>, <<1, 0>>} :
            \E resp \in SessionResponses : Respond(call, tag, resp)

SpecSessions == Init /\ [][NextSessions]_vars

(***************************************************************************)
(* The identifier specification: one invocation of each tool with each     *)
(* identifier argument drawn from safe and unsafe strings.                 *)
(***************************************************************************)
IdSamples ==
    {Str("K1"), Str(""), Str(".."), Str("a/b"), Str("a\\b"), Str("a\nb"), Str("a\tb")}

IdRequests ==
    {[name |-> n, args |-> [fileKey |-> k]] : n \in {"get-file"}, k \in IdSamples}
    \cup {[name |-> "list-files", args |-> [projectId |-> k]] : k \in IdSamples}
    \cup {[name |-> "delete_variables",
           args |-> [fileKey |-> f, variableIds |-> Arr(<<Str("A"), k>>)]] :
            f \in {Str("K1"), Str("a\tb")}, k \in IdSamples}
    \cup {[name |-> "update_variables", args |-> [fileKey |-> Str("K1"), updates |-> Arr(<<k>>)]] :
            k \in IdSamples}
    \cup {[name |-> "validate_references",
           args |-> [fileKey |-> k, variableIds |-> Arr(<<Str("A")>>)]] : k \in IdSamples}
    \cup {[name |-> "create_variables",
           args |-> [fileKey |-> k, variables |-> Arr(<<NewVariable("primary", "COLOR")>>)]] :
            k \in IdSamples}
    \cup {[name |-> "create_reference",
           args |-> [fileKey |-> Str("K1"), sourceId |-> x, targetId |-> y,
                     expression |-> Undefined]] :
            x \in IdSamples, y \in {Str("A"), Str("a\tb")}}
    \cup {[name |-> "create_theme",
           args |-> [fileKey |-> Str("K1"), name |-> Str("brand"),
                     modes |-> Arr(<<Mode("light", <<k>>)>>)]] : k \in IdSamples}

IdResponses ==
    {OkResp(ObjBody("F1")), OkResp(ArrBody(<<Var("A", "COLOR", ""), Var("K1", "COLOR", "")>>)),
     HttpErr(500, <<"boom">>)}

NextIds ==
    \/ Start
    \/ Listening
    \/ \E s \in {"s1"} : Connect(s)
    \/ \E s \in {"s1"} : Handshake(s, TRUE)
    \/ \E rq \in IdRequests : First /\ CallTool("s1", rq.name, rq.args)
    \/ \E call \in BagToSet(calls), tag \in DispatchTags :
            \E resp \in IdResponses : Respond(call, tag, resp)

SpecIds == Init /\ [][NextIds]_vars

(***************************************************************************)
(* The request specification: a FigmaHandler constructed with or without a *)
(* token, and makeFigmaRequest called on it with any endpoint.             *)
(***************************************************************************)
InitRequest ==
    /\ sessions = {}
    /\ conn = [s \in ConnIds |-> FreeConn]
    /\ calls = EmptyBag
    /\ last = IdleCall
    /\ cache = <<>>
    /\ now = 0
    /\ apiStats = [totalApiCalls |-> 0, failedApiCalls |-> 0]
    /\ connectionStats = [totalRequests |-> 0, successfulRequests |-> 0, failedRequests |-> 0]
    /\ connectionErrors = 0
    /\ recency = <<>>
    /\ server = NewServer
    /\ \E token \in {"", "token"} : handler = NewHandler(token)
    /\ startup = TokenValidated

Endpoints == {"", "/files/K1", "/projects/P1/files"}

RequestResponses ==
    {OkResp(ObjBody("F1")), HttpErr(404, <<"Not found">>), NetErr(<<"fetch failed">>),
     BadJson(<<"Unexpected token <">>)}

NextRequest ==
    \/ \E endpoint \in Endpoints : apiStats.totalApiCalls < MaxRequests /\ Request(endpoint)
    \/ \E resp \in RequestResponses : RequestEnds(resp)

SpecRequest == InitRequest /\ [][NextRequest]_vars

(***************************************************************************)
(* The lifecycle specification: the server starts, two clients connect,    *)
(* post messages and disconnect, and the server is stopped.                *)
(***************************************************************************)
\* The session ids a POST /messages comes with: none, the known ones, a stranger's.
PostIds == {"", "s9"} \cup SessionIds

NextLifecycle ==
    \/ Start
    \/ Listening
    \/ HttpError
    \/ \E s \in SessionIds : Connect(s)
    \/ \E s \in SessionIds, ok \in BOOLEAN : Handshake(s, ok)
    \/ \E s \in SessionIds : CloseSession(s)
    \/ \E id \in PostIds, out \in PostOutcomes : PostMessage(id, out)
    \/ Stop
    \/ \E ok \in BOOLEAN : StopClosed(ok)
    \/ HttpClosed

SpecLifecycle == Init /\ [][NextLifecycle]_vars

(***************************************************************************)
(* Rate limits: two file fetches answered with rate limit headers.         *)
(***************************************************************************)
WithHeaders(resp, remaining, reset) == resp @@ [remaining |-> remaining, reset |-> reset]

RateRequests == {[name |-> "get-file", args |-> [fileKey |-> k]] : k \in {Str("K1"), Str("K2")}}

RateResponses ==
    {WithHeaders(resp, remaining, reset) :
        resp \in {OkResp(ObjBody("F1")), HttpErr(429, <<"Rate limit exceeded">>)},
        remaining \in {Undefined, Str("0"), Str("7"), Str("42")},
        reset \in {Undefined, Str("1"), Str("7")}}
    \cup {NetErr(<<"fetch failed">>)}

NextRate ==
    \/ Start
    \/ Listening
    \/ \E s \in {"s1"} : Connect(s)
    \/ \E s \in {"s1"} : Handshake(s, TRUE)
    \/ \E rq \in RateRequests : Admit(RateCalls) /\ CallTool("s1", rq.name, rq.args)
    \/ \E call \in BagToSet(calls), resp \in RateResponses : Respond(call, <<0, 0>>, resp)

SpecRate == Init /\ [][NextRate]_vars

(***************************************************************************)
(* The server from the call of startServer on, with a token or without.    *)
(***************************************************************************)
InitStartup ==
    /\ sessions = {}
    /\ conn = [s \in ConnIds |-> FreeConn]
    /\ calls = EmptyBag
    /\ last = IdleCall
    /\ cache = <<>>
    /\ now = 0
    /\ apiStats = [totalApiCalls |-> 0, failedApiCalls |-> 0]
    /\ connectionStats = [totalRequests |-> 0, successfulRequests |-> 0, failedRequests |-> 0]
    /\ connectionErrors = 0
    /\ recency = <<>>
    /\ server = NewServer
    /\ \E token \in {"", "token"} : handler = NewHandler(token) /\ startup = NewStartup(token)

TokenAnswers == {OkResp(ObjBody("me")), HttpErr(403, <<"Forbidden">>), HttpErr(500, <<"boom">>),
                 NetErr(<<"fetch failed">>)}

NextStartup ==
    \/ startServer
    \/ \E resp \in TokenAnswers : TokenAnswered(resp)
    \/ Listening
    \/ HttpError
    \/ \E s \in SessionIds : Connect(s)
    \/ \E s \in SessionIds, ok \in BOOLEAN : Handshake(s, ok)
    \/ \E s \in SessionIds : CloseSession(s)
    \/ Health
    \/ Stop

SpecStartup == InitStartup /\ [][NextStartup]_vars

\* The sessions whose response stop() has ended: their connection closes.
Ended == server.attempted \ (server.closeFailed \cup {server.current})

\* The steps the process takes by itself are taken: the listener binds or
\* fails, an awaited close settles, an ended response closes, and the listener
\* closes once no connection is left.  A client is free to stay connected, and
\* nobody has to stop the server.
SpecLifecycleFair ==
    /\ SpecLifecycle
    /\ WF_vars(Start)
    /\ WF_vars(Listening \/ HttpError)
    /\ WF_vars(\E ok \in BOOLEAN : StopClosed(ok))
    /\ \A s \in SessionIds : WF_vars(s \in Ended /\ CloseSession(s))
    /\ WF_vars(HttpClosed)

(***************************************************************************)
(* The health specification: clients connect, handshakes succeed or fail,  *)
(* stop() is called and awaits its first close, and the health endpoint   *)
(* is probed.                                                              *)
(***************************************************************************)
\* The session ids are fresh and say nothing: the clients of this specification
\* are named in the order in which they arrive.
Arrivals == <<"s1", "s2", "s3", "s4", "s5", "s6">>

NextArrival(i) == \A j \in 1..(i - 1) : conn[Arrivals[j]].hs # "none"

NextHealth ==
    \/ Start
    \/ Listening
    \/ HttpError
    \/ \E i \in DOMAIN Arrivals : NextArrival(i) /\ Connect(Arrivals[i])
    \/ \E s \in ConnIds, ok \in BOOLEAN : Handshake(s, ok)
    \/ Health
    \/ Stop

SpecHealth == Init /\ [][NextHealth]_vars

(***************************************************************************)
(* The timer specification: the lifecycle with the ticks of the health     *)
(* timer.                                                                  *)
(***************************************************************************)
NextTimer ==
    \/ Start
    \/ Listening
    \/ HttpError
    \/ \E s \in SessionIds : Connect(s)
    \/ \E s \in SessionIds, ok \in BOOLEAN : Handshake(s, ok)
    \/ \E s \in SessionIds : CloseSession(s)
    \/ HealthTick
    \/ Stop
    \/ \E ok \in BOOLEAN : StopClosed(ok)
    \/ HttpClosed

SpecTimer == Init /\ [][NextTimer]_vars

(***************************************************************************)
(* Claims about callTool.                                                  *)
(***************************************************************************)
\* The text holds the message, token for token.
Carries(text, msg) ==
    \E i \in 1..(Len(text) + 1 - Len(msg)) : SubSeq(text, i, i + Len(msg) - 1) = msg

\* Values safeFigmaId does not accept.
BadIds == {Str(""), Str(".."), Str("a/b"), Str("a\\b"), Str("a\nb"), NotAString, Undefined}

\* The arguments of the invocation hold an identifier that is unsafe.
UnsafeArgs(call) ==
    \/ \E f \in DOMAIN call.args \cap {"fileKey", "projectId", "sourceId", "targetId"} :
            call.args[f] \in BadIds
    \/ \E f \in DOMAIN call.args \cap {"variableIds", "updates"} :
            \E i \in 1..Len(call.args[f].items) : call.args[f].items[i] \in BadIds
    \/ "modes" \in DOMAIN call.args /\
            \E m \in 1..Len(call.args.modes.items) :
                \E v \in 1..Len(call.args.modes.items[m].items) :
                    call.args.modes.items[m].items[v] \in BadIds

\* The failed requests the invocation as a whole stands on, and those of single
\* items of a batch (or modes and variables of a theme).
FailedWhole(call) == {h \in call.heard : ~h.ok /\ h.tag = <<0, 0>>}
FailedItems(call) == {h \in call.heard : ~h.ok /\ h.tag # <<0, 0>>}

\* The handler's own catch puts a fixed text in the place of a message that
\* holds 404 or 403.
DeniedTexts ==
    {<<"Access denied. Please verify your Figma access token has the correct permissions.">>,
     <<"Access denied. Please verify your Figma access token has read permissions.">>,
     <<"Access denied. Please verify your Figma access token has write permissions.">>}
CarriesFailure(call, msg) ==
    IF call.name # "list-files" /\ Includes(msg, "404")
    THEN call.result.text[1] = "File not found: " /\ call.result.text[2] = call.fileKey
    ELSE IF call.name # "list-files" /\ Includes(msg, "403")
    THEN call.result.text \in DeniedTexts
    ELSE Carries(call.result.text, msg)

\* C1 (as amended): callTool resolves to a result envelope for every name and
\* payload and never rejects.  A schema violation, an exception that leaves a
\* handler, and the failure of a request the whole invocation stands on give a
\* result with isError = true whose text carries the failure message (a message
\* holding 404 or 403 is replaced by the handler's fixed text); the failure of
\* the request of a single batch item, theme mode or theme variable is carried
\* in that item's line of a result that is no error result.
C1_ResolvesToEnvelope ==
    last.pc = "done" =>
        /\ last.result.kind = "result"
        /\ Len(last.result.text) > 0
        /\ last.name \in Catalogue /\ UnsafeArgs(last) =>
              /\ last.result.isError /\ last.result.text[1] = "Invalid arguments: "
              /\ last.nreq = 0
        /\ last.out.tag = "throw" =>
              /\ last.result.isError
              /\ Carries(last.result.text, IF last.out.zod THEN IssuesText(last.out.issues)
                                           ELSE last.out.msg)
        /\ \A h \in FailedWhole(last) :
              /\ last.result.isError
              /\ CarriesFailure(last, h.msg)
        /\ FailedWhole(last) = {} =>
              \A h \in FailedItems(last) :
                  ~last.result.isError /\ Carries(last.result.text, h.msg)

\* C1 witness: a theme whose collection was created, one mode request failed
\* and one variable request failed; the result is no error result.
C1_Witness ==
    /\ last.pc = "done" /\ last.name = "create_theme"
    /\ \E h \in FailedItems(last) : h.tag[2] = 0
    /\ \E h \in FailedItems(last) : h.tag[2] # 0
    /\ last.result.kind = "result" /\ ~last.result.isError

\* C1 as stated: every failing upstream request, schema violation or exception
\* gives a result with isError = true.
C1_EveryFailureIsErrorResult ==
    last.pc = "done" =>
        /\ last.result.kind = "result"
        /\ (last.failures > 0 \/ last.out.tag = "throw") => last.result.isError

\* A step in which an invocation arrives and ends at once: it is last'.
ArrivesAndEnds ==
    /\ connectionStats'.totalRequests = connectionStats.totalRequests + 1
    /\ calls' = calls

\* C2: an invocation of a name callTool has no case for ends at once with the
\* error result "Unknown tool: <name>", returned and not thrown; it issues no
\* upstream request, is never left waiting for one, and its step leaves the
\* cache and the API statistics as they were.
C2_UnknownToolIsErrorOnly ==
    /\ [](last.pc = "done" /\ last.name \notin Catalogue =>
            /\ last.result = Result(TRUE, <<"Unknown tool: ", last.name>>, NoValue)
            /\ last.out.tag = "return"
            /\ last.nreq = 0)
    /\ [](\A call \in BagToSet(calls) : call.name \in Catalogue)
    /\ [][ArrivesAndEnds /\ last'.name \notin Catalogue =>
            cache' = cache /\ recency' = recency /\ apiStats' = apiStats]_vars

\* C2 witness: an unknown name has been answered while the cache held an entry
\* and requests had been counted.
C2_Witness ==
    /\ last.pc = "done" /\ last.name = "search_files" /\ last.result.isError
    /\ cache # <<>> /\ apiStats.totalApiCalls > 0 /\ apiStats.failedApiCalls > 0

(***************************************************************************)
(* Claims about sessions.                                                  *)
(***************************************************************************)
\* A step in which the connection of session x closes.
Closes(x) == conn[x].open /\ ~conn'[x].open

CachedTools == {"get-file", "list-files"}

\* A get-file or list-files invocation that has ended and had valid arguments.
CachedDone(call) == call.pc = "done" /\ call.name \in CachedTools /\ call.key # ""

\* A step in which an invocation ends on the outcome of an upstream request.
RespondEnds == BagCardinality(calls') < BagCardinality(calls)

\* C3: a get-file or list-files invocation whose key has a live cache entry
\* (stored no longer than the TTL ago, not evicted) is answered from exactly the
\* stored value and issues no upstream request, whatever value was stored.
C3_LiveEntryServedWithoutRequest ==
    CachedDone(last) /\ last.live => last.nreq = 0 /\ last.result.data = last.stored

\* C4: a get-file or list-files invocation whose key has no live cache entry
\* (never stored, evicted, or stored more than the TTL ago) issues exactly one
\* upstream request; when that request succeeds, its decoded body is in the
\* cache under the key, written at that moment, when the invocation answers; and
\* an invocation answered without a request had a live entry and renders it.
C4_MissFetchesOnceAndStores ==
    /\ [](CachedDone(last) /\ ~last.live => last.nreq = 1)
    /\ [](\A call \in BagToSet(calls) : call.name \in CachedTools => call.nreq = 1)
    /\ [](CachedDone(last) /\ last.nreq = 0 => last.live /\ last.result.data = last.stored)
    /\ [][RespondEnds /\ last'.name \in CachedTools /\ last'.failures = 0
            => LET i == CacheIndex(cache', last'.key)
               IN  i # 0 /\ cache'[i].value = last'.fetched /\ cache'[i].start = now]_vars

\* C4 witness: an entry had expired, the invocation fetched once and stored the body.
C4_Witness ==
    CachedDone(last) /\ last.expired /\ last.nreq = 1 /\ last.failures = 0
    /\ Live(cache, last.key, now) /\ cache[CacheIndex(cache, last.key)].value = last.fetched

\* C5: the cache never holds more than its maximum number of entries; a step
\* that stores a new key in a full cache removes exactly the key used least
\* recently (by a read or a write) and no other, a step that stores a new key in
\* a cache that is not full removes nothing, and any other step removes at most
\* entries that have expired.
C5_BoundedLru ==
    /\ [](Len(cache) <= CacheMax /\ Cardinality(CacheKeys(cache)) = Len(cache))
    /\ [][LET added == CacheKeys(cache') \ CacheKeys(cache)
              removed == CacheKeys(cache) \ CacheKeys(cache')
          IN  /\ added # {} /\ Len(cache) = CacheMax => removed = {Head(recency)}
              /\ added # {} /\ Len(cache) < CacheMax => removed = {}
              /\ added = {} => \A k \in removed : ~Live(cache, k, now)]_vars

\* C5 witness: a full cache, and the invocation that ended last evicted a key to
\* store its own.
C5_Witness ==
    /\ Len(cache) = CacheMax
    /\ CachedDone(last) /\ last.evicted # {} /\ ~last.expired /\ last.key \in CacheKeys(cache)
    /\ connectionStats.totalRequests > apiStats.totalApiCalls

(***************************************************************************)
(* Message routing.                                                        *)
(***************************************************************************)
\* The connection of session id has closed.
Closed(id) == id \in ConnIds /\ conn[id].hs # "none" /\ ~conn[id].open

\* C11: a message that comes with a session id is handed to the transport of
\* exactly that session when the id is registered; with an id that is unknown
\* or whose connection has closed, the answer is the not-found error and the
\* message is handed to no transport.
C11_RoutedToItsSession ==
    [][server'.post # server.post =>
        LET p == server'.post
        IN  /\ p.sessionId \in sessions => p.to = p.sessionId /\ p.status \in {202, 500}
            /\ p.sessionId # "" /\ (p.sessionId \notin sessions \/ Closed(p.sessionId)) =>
                   /\ p.to = ""
                   /\ p.status = 404
                   /\ p.error = "Session '" \o p.sessionId \o "' not found"]_vars

\* A message for a session that has closed was refused while another session
\* was registered.
C11_Witness ==
    /\ server.post.status = 404
    /\ Closed(server.post.sessionId)
    /\ conn[server.post.sessionId].hs = "ok"
    /\ sessions # {}

(***************************************************************************)
(* The session registry.                                                   *)
(***************************************************************************)
\* C12: a session that was registered for an accepted connection stays
\* registered until that connection closes.
C12_RegisteredUntilConnectionCloses ==
    \A s \in SessionIds : conn[s].open => s \in sessions

Stopped == server.stop = "done"

\* C14 as stated: when stop() has completed, close has been attempted on every
\* session that was registered at some time during the shutdown, the registry
\* is empty and the state is 'stopped'; and the state is never 'stopped' while
\* a session is registered.
C14_EveryActiveSessionAttempted ==
    /\ Stopped => /\ server.during \subseteq server.attempted
                  /\ sessions = {}
                  /\ server.state = "stopped"
    /\ server.state = "stopped" => sessions = {}

\* C14: when the loop of stop() ends, close has been attempted on every session
\* that is registered at that moment; a session of the shutdown that stop() did
\* not attempt is still registered and ahead of the loop, or was unregistered by
\* the close of its own connection or by its failed handshake; when stop() has
\* completed the registry is empty and the state is 'stopped'; and the state is
\* never 'stopped' while a session is registered.
C14_RegisteredSessionsAttempted ==
    /\ [][server.stop # "http" /\ server'.stop = "http" =>
            sessions \subseteq server'.attempted /\ sessions' = {}]_vars
    /\ [](\A s \in server.during \ server.attempted :
            \/ s \in sessions /\ server.stop = "closing"
            \/ Closed(s)
            \/ conn[s].hs = "failed")
    /\ [](Stopped => sessions = {} /\ server.state = "stopped")
    /\ [](server.state = "stopped" => sessions = {} /\ Stopped)

\* stop() has completed after it attempted the close of one session, one whose
\* close threw, and left out another that was registered when it was called.
C14_Witness ==
    /\ Stopped /\ server.state = "stopped" /\ sessions = {}
    /\ server.closeFailed # {}
    /\ server.during \ server.attempted # {}

\* C15: no session is added to the registry while the state is 'stopping' or
\* 'stopped'.
C15_NoSessionAddedOnceStopping ==
    [][server.state \in {"stopping", "stopped"} => sessions' \subseteq sessions]_vars

\* C16: once a close attempted by stop() has failed, stop() still comes to its
\* end in state 'stopped' (unless the process has ended meanwhile).
C16_StopEndsStoppedAfterFailedClose ==
    (server.closeFailed # {}) ~> (server.state = "stopped" \/ server.crashed)

(***************************************************************************)
(* Faults and health.                                                      *)
(***************************************************************************)
\* C17: no exception leaves the handler that received a transport fault, and
\* the process keeps running.
C17_TransportFaultsAbsorbed ==
    server.escaped = {} /\ ~server.crashed

\* C18: every health snapshot carries the state and the number of connection
\* errors of the moment it is taken, and its isHealthy is true exactly when
\* that state is 'running' and that number is below 5; with 6 errors or more it
\* is false whatever the state; the probe is answered 200 exactly when it is true.
C18_HealthyIffRunningAndFewErrors ==
    /\ [][server'.health # server.health =>
            /\ server'.health.state = server.state
            /\ server'.health.errors = connectionErrors]_vars
    /\ [](server.health.n > 0 =>
            /\ server.health.isHealthy <=>
                   (server.health.state = "running" /\ server.health.errors < 5)
            /\ server.health.errors >= 6 => ~server.health.isHealthy
            /\ server.health.status = 200 <=> server.health.isHealthy)

\* A snapshot taken in state 'stopping' with no connection error is unhealthy.
C18_WitnessStopping ==
    /\ server.health.n > 0
    /\ server.health.state = "stopping" /\ server.health.errors = 0
    /\ ~server.health.isHealthy

\* A snapshot taken in state 'running' after 6 connection errors is unhealthy.
C18_Witness ==
    /\ server.health.n > 0
    /\ server.health.state = "running" /\ server.health.errors = 6
    /\ ~server.health.isHealthy /\ server.health.status = 503

(***************************************************************************)
(* The invocation counters.                                                *)
(***************************************************************************)
\* C19: every invocation is counted when it arrives and, when it ends, in
\* exactly one of the success and failure totals; one that ends with an error
\* result (unknown tool, invalid arguments, upstream failure, handler
\* exception) is counted as a failure and not as a success.
C19_FailuresCountedAsFailures ==
    /\ [](connectionStats.totalRequests =
            connectionStats.successfulRequests + connectionStats.failedRequests
                + BagCardinality(calls))
    /\ [][connectionStats'.successfulRequests + connectionStats'.failedRequests
              # connectionStats.successfulRequests + connectionStats.failedRequests =>
            IF last'.result.isError
            THEN /\ connectionStats'.failedRequests = connectionStats.failedRequests + 1
                 /\ connectionStats'.successfulRequests = connectionStats.successfulRequests
            ELSE /\ connectionStats'.successfulRequests = connectionStats.successfulRequests + 1
                 /\ connectionStats'.failedRequests = connectionStats.failedRequests]_vars

(***************************************************************************)
(* The messages of upstream failures.                                      *)
(***************************************************************************)
\* The HTTP status an upstream failure message holds, "" when it holds none.
StatusOf(msg) == IF Len(msg) >= 2 /\ msg[1] = "Figma API error (" THEN msg[2] ELSE ""

\* The text says that something was not found and names the identifier.
NotFoundNaming(text, id) ==
    \E i \in 1..(Len(text) - 1) :
        /\ text[i] \in {"File not found: ", "Project not found: ", "Not found: "}
        /\ text[i + 1] = id

\* C20: for each of the eight tools, when the upstream request the invocation
\* stands on fails, the result is an error result; with HTTP 404 its text says
\* 'not found' and names the requested identifier, with HTTP 403 it is a
\* permissions message, and with any other failure it carries the upstream message.
C20_UpstreamFailuresRephrased ==
    last.pc = "done" /\ last.name \in Catalogue =>
        \A h \in FailedWhole(last) :
            /\ last.result.isError
            /\ IF StatusOf(h.msg) = "404" THEN NotFoundNaming(last.result.text, last.fileKey)
               ELSE IF StatusOf(h.msg) = "403" THEN last.result.text \in DeniedTexts
               ELSE Carries(last.result.text, h.msg)

(***************************************************************************)
(* Identifier arguments.                                                   *)
(***************************************************************************)
\* The string is empty or holds a path separator, a control character or "..".
Injecting(chars) ==
    \/ chars = <<>>
    \/ \E i \in 1..Len(chars) : chars[i] \in {"/", "\\", "\n", "\r", "\t", "NUL"}
    \/ \E i \in 1..(Len(chars) - 1) : chars[i] = "." /\ chars[i + 1] = "."

InjectingValue(v) == v.t = "string" /\ Injecting(IdChars[v.s])

\* An identifier argument of the invocation is such a string.
InjectingArgs(call) ==
    \/ \E f \in DOMAIN call.args \cap {"fileKey", "projectId", "sourceId", "targetId"} :
            InjectingValue(call.args[f])
    \/ \E f \in DOMAIN call.args \cap {"variableIds", "updates"} :
            \E i \in 1..Len(call.args[f].items) : InjectingValue(call.args[f].items[i])
    \/ "modes" \in DOMAIN call.args /\
            \E m \in 1..Len(call.args.modes.items) :
                \E v \in 1..Len(call.args.modes.items[m].items) :
                    InjectingValue(call.args.modes.items[m].items[v])

\* C21: an invocation with an identifier argument that is empty or holds a path
\* separator, a control character or ".." issues no upstream request and ends
\* with the validation error.
C21_UnsafeIdentifierNeverRequested ==
    /\ \A call \in BagToSet(calls) : ~InjectingArgs(call)
    /\ last.pc = "done" /\ last.name \in Catalogue /\ InjectingArgs(last) =>
          /\ last.nreq = 0
          /\ last.result.isError /\ last.result.text[1] = "Invalid arguments: "

(***************************************************************************)
(* Schema violations.                                                      *)
(***************************************************************************)
\* The paths the issues of a ZodError name.
IssuePaths(issues) == {issues[i].path : i \in 1..Len(issues)}

\* The paths of the identifier arguments of the invocation that safeFigmaId
\* does not accept.
BadPaths(call) ==
    {f \in DOMAIN call.args \cap {"fileKey", "projectId", "sourceId", "targetId"} :
        call.args[f] \in BadIds}
    \cup {"variableIds." \o ToString(i - 1) :
            i \in {j \in 1..(IF "variableIds" \in DOMAIN call.args
                             THEN Len(call.args.variableIds.items) ELSE 0) :
                        call.args.variableIds.items[j] \in BadIds}}

\* C22: an invocation of a known tool whose arguments violate the schema ends
\* with the error result "Invalid arguments: " followed by every issue of the
\* violation, path and reason, each violated identifier field among them; it
\* issues no upstream request, and its step leaves the cache and the API
\* statistics as they were.
C22_EveryViolationEnumerated ==
    /\ [](last.pc = "done" /\ last.name \in Catalogue /\ BadPaths(last) # {} => last.out.zod)
    /\ [](last.pc = "done" /\ last.out.zod =>
            /\ last.result =
                   Result(TRUE, <<"Invalid arguments: ">> \o IssuesText(last.out.issues), NoValue)
            /\ BadPaths(last) \subseteq IssuePaths(last.out.issues)
            /\ \A p \in IssuePaths(last.out.issues) : Includes(last.result.text, p)
            /\ last.nreq = 0 /\ last.heard = {})
    /\ [][ArrivesAndEnds /\ last'.out.zod =>
            cache' = cache /\ recency' = recency /\ apiStats' = apiStats]_vars

\* An invocation ended on a violation of two fields, and both are in the text.
C22_Witness ==
    /\ last.pc = "done" /\ last.out.zod /\ last.name = "delete_variables"
    /\ BadPaths(last) = {"fileKey", "variableIds.1"}
    /\ Includes(last.result.text, "fileKey") /\ Includes(last.result.text, "variableIds.1")

(***************************************************************************)
(* The API statistics.                                                     *)
(***************************************************************************)
\* The one invocation of a behaviour that admits a single invocation.
TheCall == IF calls = EmptyBag THEN last ELSE CHOOSE call \in BagToSet(calls) : TRUE

\* C23: totalApiCalls is the number of upstream requests that have ended and
\* failedApiCalls the number of them that ended in an error, also when the
\* requests of a batch are in flight together and end in any order; a step
\* changes the counters only by counting one ended request once, so neither
\* counter goes down and failedApiCalls never exceeds totalApiCalls.
C23_StatisticsCountEachRequestOnce ==
    /\ [](/\ apiStats.totalApiCalls = Cardinality(TheCall.heard)
          /\ apiStats.failedApiCalls = Cardinality({h \in TheCall.heard : ~h.ok})
          /\ apiStats.failedApiCalls <= apiStats.totalApiCalls)
    /\ [][/\ apiStats'.totalApiCalls \in {apiStats.totalApiCalls, apiStats.totalApiCalls + 1}
          /\ apiStats'.failedApiCalls \in {apiStats.failedApiCalls, apiStats.failedApiCalls + 1}
          /\ apiStats'.failedApiCalls # apiStats.failedApiCalls =>
                apiStats'.totalApiCalls = apiStats.totalApiCalls + 1]_vars

\* A batch has ended whose list request and two item requests succeeded and
\* whose third item request failed.
C23_Witness ==
    /\ last.pc = "done" /\ calls = EmptyBag
    /\ apiStats.totalApiCalls = 4 /\ apiStats.failedApiCalls = 1
    /\ \E h \in last.heard : ~h.ok /\ h.tag # <<0, 0>>

(***************************************************************************)
(* makeFigmaRequest on its own.                                            *)
(***************************************************************************)
\* C24: makeFigmaRequest called with an empty endpoint, or on a handler that
\* has no token, ends with the error that says so and attempts no network call.
C24_FailsFastWithoutNetworkCall ==
    /\ handler.request.pc # "none" /\ handler.request.endpoint = "" =>
          /\ handler.request.pc = "done" /\ handler.request.fetches = 0
          /\ handler.request.error = <<"Empty endpoint provided to Figma API request">>
    /\ handler.request.pc # "none" /\ handler.request.endpoint # "" /\ handler.figmaToken = "" =>
          /\ handler.request.pc = "done" /\ handler.request.fetches = 0
          /\ handler.request.error =
                <<"No Figma access token provided. Please set FIGMA_ACCESS_TOKEN environment variable.">>
    /\ handler.request.pc = "fetch" => handler.request.endpoint # "" /\ handler.figmaToken # ""

\* A request with an endpoint has failed for want of a token, without a network call.
C24_Witness ==
    /\ handler.figmaToken = "" /\ handler.request.pc = "done"
    /\ handler.request.endpoint = "/files/K1" /\ handler.request.fetches = 0
    /\ handler.request.error # <<>>

(***************************************************************************)
(* Batches: the list request and the item requests.                        *)
(***************************************************************************)
BatchTools == {"update_variables", "delete_variables"}

\* The batch invocations there are: those in flight and the one that ended last.
BatchCalls ==
    {call \in BagToSet(calls) \cup {last} : call.pc # "idle" /\ call.name \in BatchTools}

\* The outcome of the list request of the invocation, if it has ended.
ListHeard(call) == {h \in call.heard : h.tag = <<0, 0>>}

\* The items whose request the invocation has issued.
ItemsRequested(call) ==
    {tag[1] : tag \in {h.tag : h \in call.heard} \cup call.pending} \ {0}

\* The items whose identifier is the id of a variable of the list.
ItemsListed(call) ==
    {i \in 1..Len(call.items) : \E v \in 1..Len(call.list.vars) : call.list.vars[v].id = call.items[i]}

\* A step in which a batch invocation arrives.
ArrivesBatch ==
    /\ connectionStats'.totalRequests = connectionStats.totalRequests + 1
    /\ \E call \in (BagToSet(calls') \ BagToSet(calls)) \cup ({last'} \ {last}) :
            call.name \in BatchTools

\* C25: a batch whose arguments are valid requests the list upstream when it
\* arrives, whatever the cache holds, and leaves the cache alone; until the
\* list has come it has issued nothing else; with the list it has issued one
\* request for each item whose identifier is in the list and none for any
\* other; when the list request has failed it has issued no item request.
C25_FreshListThenOneWritePerListedItem ==
    /\ [](\A call \in BatchCalls :
            /\ call.pc = "await" /\ call.stage = "list" =>
                  call.nreq = 1 /\ call.pending = {<<0, 0>>} /\ call.heard = {}
            /\ call.pc = "done" /\ ~call.out.zod => ListHeard(call) # {}
            /\ call.nreq > 0 /\ ListHeard(call) = {} => call.stage = "list"
            /\ \A h \in ListHeard(call) :
                  IF h.ok /\ call.list.t = "array"
                  THEN /\ ItemsRequested(call) = ItemsListed(call)
                       /\ call.nreq = 1 + Cardinality(ItemsListed(call))
                       /\ Cardinality(call.heard) + Cardinality(call.pending) = call.nreq
                  ELSE ItemsRequested(call) = {} /\ call.nreq = 1 /\ call.pc = "done")
    /\ [][ArrivesBatch => /\ cache' = cache
                         /\ \A call \in BagToSet(calls') \ BagToSet(calls) :
                               call.name \in BatchTools => call.stage = "list"]_vars

\* A batch of a listed and an unlisted item has ended with one write, while the
\* cache held the file.
C25_Witness ==
    /\ last.pc = "done" /\ last.name \in BatchTools /\ calls = EmptyBag
    /\ Len(last.items) = 2 /\ Cardinality(ItemsListed(last)) = 1
    /\ last.nreq = 2 /\ cache # <<>>

(***************************************************************************)
(* Retries.                                                                *)
(***************************************************************************)
RECURSIVE ModeVariables(_, _)
ModeVariables(modes, m) ==
    IF m > Len(modes) THEN 0 ELSE Len(modes[m].vars) + ModeVariables(modes, m + 1)

\* The upstream requests the handler of an invocation asks for at most: one
\* makeFigmaRequest call site per resource, per list and per item.
LogicalRequests(call) ==
    CASE call.name \in {"get-file", "list-files", "validate_references"} -> 1
      [] call.name \in {"create_variables", "create_reference"} -> 2
      [] call.name \in BatchTools -> 1 + Len(call.items)
      [] call.name = "create_theme" -> 1 + Len(call.modes) + ModeVariables(call.modes, 1)
      [] OTHER -> 0

\* C26: an invocation issues no more upstream calls than it has logical
\* requests, every call it has issued has ended once or is outstanding, and
\* a step in which one of its calls fails issues no further call.
C26_NoRequestIsRetried ==
    /\ [](/\ TheCall.nreq <= LogicalRequests(TheCall)
          /\ apiStats.totalApiCalls + Cardinality(TheCall.pending) = TheCall.nreq)
    /\ [][apiStats'.failedApiCalls # apiStats.failedApiCalls =>
             /\ TheCall'.nreq = TheCall.nreq
             /\ TheCall'.pending \subseteq TheCall.pending]_vars

\* A batch has ended whose list came and one of whose two item writes failed:
\* three calls in all.
C26_Witness ==
    /\ last.pc = "done" /\ calls = EmptyBag
    /\ last.name \in BatchTools /\ last.nreq = 3 /\ last.failures = 1
    /\ \E h \in last.heard : ~h.ok /\ h.tag # <<0, 0>>
    /\ apiStats.totalApiCalls = 3

(***************************************************************************)
(* startServer.                                                            *)
(***************************************************************************)
\* The MCPServer as the constructor leaves it: nothing has acted on it.
Unconstructed ==
    /\ server = NewServer
    /\ sessions = {}
    /\ \A s \in ConnIds : conn[s] = FreeConn
    /\ calls = EmptyBag /\ last = IdleCall

\* C27: the server runs, binds, listens or holds a session only when
\* validateToken was answered that the token is good; while the token is being
\* validated, and for good once it is missing, rejected or could not be checked,
\* startServer has made no server, nothing listens and no session is accepted;
\* a startServer that failed stays failed with the error it threw.
C27_RunningOnlyAfterValidation ==
    /\ [](server.state = "running" \/ server.httpServer # "null" \/ sessions # {}
             => startup.pc = "validated" /\ startup.answer = "ok" /\ startup.token # "")
    /\ [](startup.pc # "validated" => Unconstructed)
    /\ [](startup.token = "" \/ startup.answer \in {"http", "network"}
             => startup.pc \in {"idle", "failed"})
    /\ [](startup.pc = "failed" => startup.error # <<>> /\ [](startup.pc = "failed"))

\* The token passed and the server runs with a session.
C27_Witness ==
    /\ startup.pc = "validated" /\ server.state = "running" /\ sessions # {}

\* Figma could not be reached: startServer has failed and there is no server.
C27_WitnessFailed ==
    /\ startup.pc = "failed" /\ startup.answer = "network" /\ Unconstructed

(***************************************************************************)
(* create_reference and cycles.                                            *)
(***************************************************************************)
\* The write of the invocation would close a cycle: its target is its source
\* or reaches its source by the references of the list it fetched.
ClosesCycle(call) ==
    \/ call.items[1] = call.items[2]
    \/ call.items[1] \in Reached(Edges(call.list.vars), call.items[2])

\* C28: create_reference never waits on (has never issued) the reference
\* write when the target is the source or reaches the source, and ends with
\* an error result in that case.
C28_NoWriteThatClosesACycle ==
    /\ \A call \in BagToSet(calls) :
          call.name = "create_reference" /\ call.stage = "reference" => ~ClosesCycle(call)
    /\ last.pc = "done" /\ last.name = "create_reference" /\ last.list.t = "array"
          /\ FindVar(last.list.vars, last.items[1]) # 0
          /\ FindVar(last.list.vars, last.items[2]) # 0
          /\ ClosesCycle(last)
       => last.nreq = 1 /\ last.result.isError

(***************************************************************************)
(* Rate limits in the statistics.                                          *)
(***************************************************************************)
\* The number a header that holds digits denotes.
HeaderNumber(h) == Num(Digits[h.s])
IsNumeric(h) == h.t = "string" /\ h.s \in DOMAIN Digits

\* C29: once a response has come, the statistics hold as the remaining calls
\* the number in the last response's rate-limit-remaining header, zero
\* included, and as the reset time the time in its reset header.
C29_HeadroomEqualsHeader ==
    handler.headers.seen =>
        /\ IsNumeric(handler.headers.remaining) =>
              handler.stats.rateLimitRemaining = HeaderNumber(handler.headers.remaining)
        /\ IsNumeric(handler.headers.reset) =>
              handler.stats.rateLimitReset = HeaderNumber(handler.headers.reset)

\* The same for every header value but zero.
C29_HeadroomEqualsNonZeroHeader ==
    handler.headers.seen =>
        /\ IsNumeric(handler.headers.remaining) /\ handler.headers.remaining.s # "0" =>
              handler.stats.rateLimitRemaining = HeaderNumber(handler.headers.remaining)
        /\ IsNumeric(handler.headers.reset) =>
              handler.stats.rateLimitReset = HeaderNumber(handler.headers.reset)

(***************************************************************************)
(* What is written to the cache.                                           *)
(***************************************************************************)
\* The entries the step has written: those of the cache after it that the
\* cache before it did not hold.
Written == {cache'[i] : i \in 1..Len(cache')} \ {cache[i] : i \in 1..Len(cache)}

\* C30: a step writes a cache entry only when an upstream call of a fetch has
\* just ended without failure, and the entry holds the body that call decoded,
\* under that fetch's key; a step in which an upstream call fails leaves the
\* cache as it is; and a fetch is answered without an upstream call only from
\* a live entry, with a result that is no error.
C30_CacheHoldsOnlySuccessfulBodies ==
    /\ [][\A e \in Written :
             /\ apiStats'.totalApiCalls = apiStats.totalApiCalls + 1
             /\ apiStats'.failedApiCalls = apiStats.failedApiCalls
             /\ calls' # calls /\ last'.pc = "done" /\ last'.failures = 0
             /\ e.key = last'.key /\ e.value = last'.fetched /\ e.start = now]_vars
    /\ [][apiStats'.failedApiCalls # apiStats.failedApiCalls => cache' = cache]_vars
    /\ [][/\ connectionStats'.totalRequests = connectionStats.totalRequests + 1
          /\ calls' = calls /\ ~last'.out.zod
          => /\ Live(cache, last'.key, now)
             /\ last'.nreq = 0 /\ ~last'.result.isError]_vars

\* A fetch has failed, nothing was cached, and the next fetch of the same key
\* waits on its own upstream call.
C30_Witness ==
    /\ last.pc = "done" /\ last.failures = 1 /\ last.nreq = 1
    /\ cache = <<>>
    /\ connectionStats.totalRequests = 2
    /\ \E call \in BagToSet(calls) : call.key = last.key /\ call.nreq = 1 /\ call.pc = "await"

(***************************************************************************)
(* buildDependencyGraph as a function of the list of variables.            *)
(***************************************************************************)
\* The reference-typed variables of the list, in its order.
References(variables) == SelectSeq(variables, LAMBDA v : v.resolvedType = "VARIABLE_REFERENCE")

\* The identifiers the reference-typed variables with identifier id carry, in
\* the order of the list.
Referenced(variables, id) ==
    LET from == SelectSeq(References(variables), LAMBDA v : v.id = id /\ v.ref # "")
    IN  [i \in 1..Len(from) |-> from[i].ref]

\* The identifiers a variable carries as referenced, in any of its modes.
Carried(variable) == {variable.ref, variable.other} \ {""}

\* C31: the graph of a list of variables has a key for every reference-typed
\* variable, and for every identifier such a variable carries as referenced,
\* in whatever mode, an edge from the variable's identifier to it; every key
\* and every edge comes from the list.
C31_EveryCarriedReferenceIsAnEdge ==
    Validated(last) =>
        LET variables == last.list.vars
            graph == buildDependencyGraph(variables)
            refs == References(variables)
        IN  /\ DOMAIN graph.adj = {refs[i].id : i \in 1..Len(refs)}
            /\ \A i \in 1..Len(refs) :
                  Carried(refs[i]) \subseteq {graph.adj[refs[i].id][j] :
                                                j \in 1..Len(graph.adj[refs[i].id])}
            /\ \A id \in DOMAIN graph.adj : \A j \in 1..Len(graph.adj[id]) :
                  \E i \in 1..Len(refs) : refs[i].id = id /\ graph.adj[id][j] \in Carried(refs[i])

\* C31, for the references of the mode named default alone: the graph of a
\* list of variables has as keys exactly the identifiers
\* of its reference-typed variables, each once and in the order of their
\* first occurrence; the list of a key holds, in the order of the list of
\* variables, exactly the identifiers its reference-typed variables carry in
\* that mode, one edge for each, and is empty when they carry none; nothing
\* else is in the graph.
C31_GraphIsTheReferencesOfTheList ==
    Validated(last) =>
        LET variables == last.list.vars
            graph == buildDependencyGraph(variables)
            refs == References(variables)
        IN  /\ DOMAIN graph.adj = {refs[i].id : i \in 1..Len(refs)}
            /\ {graph.keys[i] : i \in 1..Len(graph.keys)} = DOMAIN graph.adj
            /\ \A i, j \in 1..Len(graph.keys) :
                  /\ i # j => graph.keys[i] # graph.keys[j]
                  /\ i < j => \E a \in 1..Len(refs) :
                                 /\ refs[a].id = graph.keys[i]
                                 /\ \A b \in 1..Len(refs) : refs[b].id = graph.keys[j] => a < b
            /\ \A id \in DOMAIN graph.adj : graph.adj[id] = Referenced(variables, id)

(***************************************************************************)
(* The health timer.                                                       *)
(***************************************************************************)
\* start() has succeeded and stop() has not been called.
Serving == server.started = "resolved" /\ server.stop = "idle"

\* C32: while start() has succeeded and stop() has not been called, one
\* timer is set, and each of its ticks publishes the snapshot of the state
\* it fires in; from the call of stop() on no timer is set and no tick
\* publishes anything; there is never more than one timer.
C32_TicksPublishFromStartToStop ==
    /\ [](/\ server.timers <= 1
          /\ server.healthCheckInterval <=> server.timers = 1
          /\ Serving /\ Alive => server.timers = 1 /\ (server.ticks < MaxTicks => ENABLED HealthTick)
          /\ ~Serving => server.timers = 0 /\ ~ENABLED HealthTick)
    /\ [][server'.ticks # server.ticks =>
             /\ Serving /\ server'.ticks = server.ticks + 1
             /\ server'.published.state = server.state
             /\ server'.published.errors = connectionErrors
             /\ server'.published.activeSessions = Cardinality(sessions)
             /\ server'.published.isHealthy = (server.state = "running" /\ connectionErrors < 5)]_vars
    /\ [][~Serving => server'.published = server.published /\ server'.ticks = server.ticks]_vars

\* The timer has ticked with a session registered, and stop() was called after.
C32_Witness ==
    /\ server.stop # "idle"
    /\ server.ticks > 0 /\ server.published.activeSessions > 0
    /\ server.timers = 0

(***************************************************************************)
(* create_theme: the outcomes of the modes and of their variables.         *)
(***************************************************************************)
\* The outcome of the request `tag` of the invocation, if it has ended.
Outcome(call, tag) == {h \in call.heard : h.tag = tag}

\* The requests the invocation has issued: ended or outstanding.
Issued(call) == {h.tag : h \in call.heard} \cup call.pending

\* The line of the v-th variable of mode m says what its request ended with.
VariableLine(call, m, v) ==
    LET mode == call.modes[m]
        line == call.sub[m][v]
    IN  \E h \in Outcome(call, <<m, v>>) :
            IF h.ok THEN line = <<"Set ", mode.vars[v], " for mode ", mode.name>>
            ELSE line = <<"Failed to set ", mode.vars[v], " for mode ", mode.name, ": ">> \o h.msg

\* The line of mode m says what its request ended with, and under a mode that
\* was created there is one line for each of its variables.
ModeLine(call, m) ==
    LET mode == call.modes[m] IN
    \/ /\ Outcome(call, <<m, 0>>) = {}
       /\ call.nreq = 1
       /\ call.lines[m] = FailedMode(mode, NoCollectionId)
    \/ \E h \in Outcome(call, <<m, 0>>) :
          IF h.ok
          THEN /\ Len(call.sub[m]) = Len(mode.vars)
               /\ \A v \in 1..Len(mode.vars) : VariableLine(call, m, v)
               /\ call.lines[m] = CreatedMode(mode, call.sub[m])
          ELSE /\ call.lines[m] = FailedMode(mode, h.msg)
               /\ \A v \in 1..Len(mode.vars) : <<m, v>> \notin Issued(call)

\* C33: a create_theme whose collection request succeeded sends the value of
\* a variable of a mode only once the request of that mode has succeeded, and
\* ends, whatever failed, with a result that is no error and holds one line
\* for each mode: that of a created mode with one line for each of its
\* variables, set or failed, that of a failed mode with its failure.
C33_OneOutcomePerModeAndVariable ==
    TheCall.name = "create_theme" =>
        /\ \A tag \in Issued(TheCall) :
              tag[2] > 0 => \E h \in Outcome(TheCall, <<tag[1], 0>>) : h.ok
        /\ TheCall.pc = "await" /\ TheCall.stage = "modes" =>
              \A h \in TheCall.heard : ~h.ok /\ h.tag[2] = 0 =>
                  \A m \in 1..Len(TheCall.modes) : <<m, 0>> \in Issued(TheCall)
        /\ TheCall.pc = "done" /\ (\E h \in Outcome(TheCall, <<0, 0>>) : h.ok) =>
              /\ ~TheCall.result.isError
              /\ Len(TheCall.lines) = Len(TheCall.modes)
              /\ \A m \in 1..Len(TheCall.modes) : ModeLine(TheCall, m)
              /\ TheCall.result.text =
                    <<"Created theme \"", TheCall.themeName, "\" with modes:">>
                    \o Flatten(TheCall.lines)

\* A theme has ended in which one mode was created with a variable set and a
\* variable failed, and the other mode failed.
C33_Witness ==
    /\ last.pc = "done" /\ last.name = "create_theme" /\ Len(last.modes) = 2
    /\ \E h \in Outcome(last, <<1, 0>>) : h.ok
    /\ \E h \in Outcome(last, <<1, 1>>) : h.ok
    /\ \E h \in Outcome(last, <<1, 2>>) : ~h.ok
    /\ \E h \in Outcome(last, <<2, 0>>) : ~h.ok

(***************************************************************************)
(* Concurrent fetches of one key.                                          *)
(***************************************************************************)
\* The upstream calls outstanding for the key.
Outstanding(key) ==
    LET waiting == {call \in BagToSet(calls) : call.pc = "await" /\ call.key = key}
    IN  BagCardinality([call \in waiting |-> CopiesIn(call, calls) * Cardinality(call.pending)])

\* C34: of the get-file and list-files invocations in flight for one key, at
\* most one has an upstream call outstanding.
C34_OneUpstreamCallPerKey ==
    \A call \in BagToSet(calls) : Outstanding(call.key) <= 1

(***************************************************************************)
(* The tools advertised and the tools dispatched.                          *)
(***************************************************************************)
\* The invocation that ended last was dispatched to a handler: callTool had a
\* case for its name.
Dispatched(call) ==
    call.pc = "done" /\ call.result.text # <<"Unknown tool: ", call.name>>

\* C35: once the tools were listed, an invocation is dispatched to a handler
\* exactly when its name is among the names listed.
C35_AdvertisedEqualsDispatched ==
    handler.tools # {} /\ last.pc = "done" => (Dispatched(last) <=> last.name \in handler.tools)

\* The same in one direction: a listed name is dispatched.
C35_AdvertisedIsDispatched ==
    handler.tools # {} /\ last.pc = "done" /\ last.name \in handler.tools => Dispatched(last)

(***************************************************************************)
(* Handshakes and connection errors.                                       *)
(***************************************************************************)
\* The connections whose handshake has failed.
FailedHandshakes == {s \in ConnIds : conn[s].hs = "failed"}

C37_FiveErrorsUnhealthyForGood ==
    /\ [][connectionErrors' >= connectionErrors]_vars
    /\ [](connectionErrors >= 5 => [](connectionErrors >= 5))
    /\ [][connectionErrors >= 5 /\ server'.health.n # server.health.n =>
             /\ ~server'.health.isHealthy
             /\ server'.health.status = 503
             /\ server'.health.errors = connectionErrors]_vars

\* The fifth connection error was recorded while the server runs, and a
\* snapshot taken since says unhealthy.
C37_Witness ==
    /\ connectionErrors >= 5
    /\ server.health.n > 0 /\ server.health.errors >= 5
    /\ server.health.state = "running" /\ ~server.health.isHealthy

(***************************************************************************)
(* The process state.                                                      *)
(***************************************************************************)
\* C38: the state is 'starting' until the listener has answered, and a step changes
\* it only from 'starting' to 'running' as the listener starts to listen, to
\* 'error' as the listener fails, to 'stopping' as stop() is called, and
\* from 'stopping' to 'stopped' with the registry empty, every connection
\* ended and the listener closed.
C38_StateChangesAsSpecified ==
    /\ [](server.httpServer \in {"null", "binding"} /\ server.stop = "idle"
             => server.state = "starting")
    /\ [](server.state = "running" => server.httpServer = "listening")
    /\ [][server'.state # server.state =>
             \/ /\ server'.state = "running" /\ server.state = "starting"
                /\ server.httpServer = "binding" /\ server'.httpServer = "listening"
                /\ server'.started = "resolved"
             \/ /\ server'.state = "error"
                /\ server.httpServer # "failed" /\ server'.httpServer = "failed"
             \/ /\ server'.state = "stopping"
                /\ server.stop = "idle" /\ server'.stop # "idle"
             \/ /\ server'.state = "stopped" /\ server.state = "stopping"
                /\ sessions' = {} /\ \A s \in ConnIds : ~conn'[s].open
                /\ server.httpServer = "closing" /\ server'.httpServer = "null"]_vars

\* The server has run, served a session, and stopped.
C38_Witness ==
    /\ server.state = "stopped" /\ server.order # <<>>
    /\ \E s \in ConnIds : conn[s].hs = "ok"

(***************************************************************************)
(* create_reference: when the write is issued.                             *)
(***************************************************************************)
\* The identifiers of the variables of the list the invocation fetched.
ListedIds(call) ==
    IF call.list.t = "array" THEN {call.list.vars[i].id : i \in 1..Len(call.list.vars)} ELSE {}

\* C39: a create_reference whose arguments are valid first requests the list
\* of variables upstream; it waits on the reference write only when that
\* request has succeeded and the list holds both its source and its target;
\* when the list request failed, or the source or the target is not in the
\* list, it has ended with an error result after that one request.
C39_WriteOnlyWhenBothEndsListed ==
    /\ \A call \in BagToSet(calls) : call.name = "create_reference" =>
          /\ call.stage = "lookup" => call.nreq = 1 /\ call.heard = {}
          /\ call.stage = "reference" =>
                /\ call.nreq = 2
                /\ \E h \in call.heard : h.ok
                /\ {call.items[1], call.items[2]} \subseteq ListedIds(call)
    /\ last.pc = "done" /\ last.name = "create_reference" /\ ~last.out.zod =>
          /\ last.nreq \in {1, 2}
          /\ last.nreq = 2 <=> /\ \E h \in last.heard : h.ok
                               /\ {last.items[1], last.items[2]} \subseteq ListedIds(last)
          /\ last.nreq = 1 => last.result.isError

\* The list held both ends and the write was made; and nothing was cached.
C39_Witness ==
    /\ last.pc = "done" /\ last.name = "create_reference"
    /\ last.nreq = 2 /\ ~last.result.isError /\ last.items[1] # last.items[2]
    /\ cache = <<>>

(***************************************************************************)
(* When a failure is rephrased.                                            *)
(***************************************************************************)
\* The statuses of the upstream responses of the invocation that failed.
FailedStatuses(call) == {StatusOf(h.msg) : h \in {g \in call.heard : ~g.ok}}

\* C40: a result says 'not found', naming the identifier, only when an
\* upstream response of the invocation had status 404, and is the permissions
\* message only when one had status 403.
C40_RephrasedOnlyByStatus ==
    last.pc = "done" /\ last.name \in Catalogue =>
        /\ NotFoundNaming(last.result.text, last.fileKey) => "404" \in FailedStatuses(last)
        /\ last.result.text \in DeniedTexts => "403" \in FailedStatuses(last)

====
